---- MODULE Spec2Model ----
(***************************************************************************)
(* Review Gate V2: the file-based signalling protocol of                   *)
(* src/V2/review_gate_v2_mcp.py (class ReviewGateServer).                   *)
(*                                                                         *)
(* The server is one asyncio process: its coroutines (tool invocations and *)
(* the shutdown monitor) change hands only at an await, so a coroutine     *)
(* holds the event loop (variable running) from the moment it wakes until  *)
(* its next asyncio.sleep.  The host (the Cursor extension) is another     *)
(* process: its steps interleave with every single file operation of the   *)
(* server.  Time is counted in units of the waiters' check_interval.       *)
(***************************************************************************)
EXTENDS Integers, Sequences, FiniteSets, TLC

\* ------------------------------------------------------------------ bounds
NumInv == 2           \* tool invocations in one run
MaxTime == 11         \* the clock stops here in the longest run
Horizon == 9          \* here in the other runs with a review_gate_chat
ShortRun == 6         \* and here in the runs of a shutdown_mcp
MaxMs == 1            \* distinct millisecond readings of time.time() at line 340
AckTimeout == 4       \* timeout=30 of the acknowledgement wait, scaled
RespTimeout == 2      \* timeout=300 of the response wait of review_gate_chat, scaled
ConfirmTimeout == 1   \* timeout=60 of the response wait of shutdown_mcp, scaled
CheckInterval == 1    \* check_interval = 0.1, the unit of time
ErrorBackoff == 3     \* asyncio.sleep(0.5) after an error, scaled
MaxAcks == 2          \* acknowledgement documents the host writes per request
MaxAnswers == 1       \* response documents the host writes per request
NumBackups == 3       \* range(3) in _create_backup_triggers
MaxSpeech == 2        \* speech_to_text request documents the host writes in one run

Inv == 1 .. NumInv
None == 0             \* no coroutine holds the event loop
Monitor == NumInv + 1 \* the _monitor_shutdown task

\* ------------------------------------------------------------------ texts
\* A text is a sequence of characters; " " stands for any whitespace and "{"
\* is the structural marker of a JSON body.
IsSpace(c) == c = " "

RECURSIVE LStrip(_)
LStrip(s) == IF s # <<>> /\ IsSpace(Head(s)) THEN LStrip(Tail(s)) ELSE s

RECURSIVE RStrip(_)
RStrip(s) ==
    IF s # <<>> /\ IsSpace(s[Len(s)]) THEN RStrip(SubSeq(s, 1, Len(s) - 1)) ELSE s

\* str.strip()
Strip(s) == RStrip(LStrip(s))

UpperChar(c) == CASE c = "y" -> "Y" [] c = "n" -> "N" [] OTHER -> c

\* str.upper()
Upper(s) == [k \in 1 .. Len(s) |-> UpperChar(s[k])]

StartsWith(s, c) == s # <<>> /\ Head(s) = c

\* ------------------------------------------------------------------ documents
\* What a read of a missing name yields (FileNotFoundError in the code).
Absent == [fmt |-> "absent"]
NoId == [kind |-> "", ms |-> 0]

\* trigger_id = f"review_{int(time.time() * 1000)}" / f"shutdown_{...}"
TriggerId(prefix, ms) == [kind |-> prefix, ms |-> ms]

\* The names of the shared store (get_temp_dir() is the same for all).
TriggerFile == <<"review_gate_trigger">>
BackupFile(k) == <<"review_gate_trigger", k>>
AckFile(tid) == <<"review_gate_ack", tid>>

\* response_patterns, in the order of the list
ResponsePatterns(tid) ==
    << <<"review_gate_response", tid>>,
       <<"review_gate_response">>,
       <<"mcp_response", tid>>,
       <<"mcp_response">> >>

TriggerNames == {TriggerFile} \cup {BackupFile(k) : k \in 0 .. NumBackups - 1}

\* --- what the host puts in a response document
\* One attachment descriptor {mimeType, fileName, base64Data}.
Att(mime, name) == [mimeType |-> mime, fileName |-> name, base64Data |-> <<"b64", name>>]

\* A JSON object: has is the set of keys present.  for is not part of the file:
\* it remembers which request the host was answering.
JsonResponse(has, ui, resp, msg, tid, atts, i) ==
    [fmt |-> "json", has |-> has, user_input |-> ui, response |-> resp,
     message |-> msg, trigger_id |-> tid, attachments |-> atts, for |-> i]

\* A body that is no JSON object: plain text, or a truncated "{..." body.
RawDoc(body, i) == [fmt |-> "raw", body |-> body, for |-> i]

\* {"acknowledged": flag}
AckDoc(flag) == [fmt |-> "json", has |-> {"acknowledged"}, acknowledged |-> flag]

\* A JSON object without the acknowledged key.
AckDocNoFlag == [fmt |-> "json", has |-> {}, acknowledged |-> FALSE]

\* st_size of a document
Size(doc) == IF doc.fmt = "raw" THEN Len(doc.body) ELSE 2

\* json.loads succeeds on it
Parseable(doc) == doc.fmt = "json"

\* file_content.startswith("{") after .strip()
StartsWithBrace(doc) ==
    IF doc.fmt = "json" THEN TRUE ELSE StartsWith(Strip(doc.body), "{")

\* The primary trigger document written for invocation i; req identifies the
\* request (its message, title and context), data.trigger_id its id.
TriggerDoc(i, tool, tid) ==
    [fmt |-> "json", system |-> "review-gate-v2", req |-> i,
     data |-> [tool |-> tool, trigger_id |-> tid], backup_id |-> "none"]

\* backup_data of _create_backup_triggers
BackupDoc(i, tool, tid, b) ==
    [fmt |-> "json", system |-> "review-gate-v2", req |-> i,
     data |-> [tool |-> tool, trigger_id |-> tid], backup_id |-> b]

\* A zero-length file.
EmptyDoc == [fmt |-> "raw", body |-> <<>>, for |-> 0]

\* --- speech_to_text documents; request s has correlation id s
SpeechSlots == 1 .. MaxSpeech
\* a match of review_gate_speech_trigger_*.json
SpeechTrigger(s) == <<"review_gate_speech_trigger", s>>
\* the audio payload a request refers to
AudioFile(s) == <<"audio", s>>
\* review_gate_speech_response_{trigger_id}.json
SpeechResponseFile(id) == <<"review_gate_speech_response", id>>
SpeechNames == {SpeechTrigger(s) : s \in SpeechSlots}
AudioDoc == [fmt |-> "raw", body |-> <<"y">>, for |-> 0]

\* trigger_data: has is the set of keys of its "data" object
SpeechRequest(tag, has, s) ==
    [fmt |-> "json", has |-> has,
     data |-> [tool |-> tag, audio_file |-> AudioFile(s), trigger_id |-> s]]

\* JSON null
Null == "null"

\* response_data of _write_speech_response
SpeechResponse(id, transcription, error) ==
    [fmt |-> "json", trigger_id |-> id, transcription |-> transcription,
     success |-> (error = Null), error |-> error, source |-> "review_gate_whisper"]

\* ------------------------------------------------------------------ state
VARIABLES
    env,                 \* the environment of this run: one of Scenarios
    now,                 \* time.time(), in units of check_interval
    msNow,               \* int(time.time() * 1000), as far as ids can tell
    files,               \* the shared store: name -> document, for the names that exist
    running,             \* the coroutine that holds the event loop, or None
    pc,                  \* pc[i]: where invocation i stands
    tool,                \* tool[i]: "review_gate_chat" or "shutdown_mcp"
    trigger_id,          \* trigger_id[i]
    wake,                \* wake[i]: when its asyncio.sleep ends
    start_time,          \* start_time[i] of the wait it is in
    k,                   \* k[i]: index of the backup / response pattern at hand
    data,                \* data[i]: the document the waiter has read
    user_input,          \* user_input[i]: the text the waiter extracted
    ack_received,        \* ack_received[i]: result of the acknowledgement wait
    result,              \* result[i]: the content list the handler returned
    last_attachments,    \* self._last_attachments
    shutdown_requested,  \* self.shutdown_requested
    mon,                 \* where _monitor_shutdown stands
    mk,                  \* index into its temp_files
    emit,                \* emit[i]: how the emission ended (history)
    primary,             \* primary[i]: how the write of the primary trigger ended (history)
    got,                 \* got[i]: the request whose answer invocation i consumed (history)
    backup_failed,       \* backup_failed[i]: a backup write raised (history)
    at_cleanup,          \* the trigger names that existed when cleanup began (history)
    host_read,           \* the requests the host has read from a trigger document
    host_acked,          \* host_acked[i]: acknowledgement documents written for request i
    host_answered,       \* host_answered[i]: response documents written for request i
    host_retracted,      \* the documents of its own the host has taken back (names)
    sp,                  \* where the thread monitor_speech_triggers stands
    sq,                  \* its speech_triggers still to visit (the slots of the names)
    sdata,               \* its trigger_data
    host_spoke,          \* the speech slots the host has used
    raised,              \* the speech slots whose trigger file raised in the thread (history)
    queued,              \* the speech requests waiting when shutdown_requested was set (history)
    ack_seen,            \* ack_seen[i]: what the polls of its acknowledgement waiter read:
                         \* "true", "false" (the ack_status) or "error", in order (history)
    waiting_since        \* waiting_since[i]: the time its emission returned True (history)

vars == <<env, now, msNow, files, running, pc, tool, trigger_id, wake, start_time, k, data,
          user_input, ack_received, result, last_attachments, shutdown_requested,
          mon, mk, emit, primary, got, backup_failed, at_cleanup, host_read,
          host_acked, host_answered, host_retracted, sp, sq, sdata, host_spoke, raised, queued,
          ack_seen, waiting_since>>

speechVars == <<sp, sq, sdata, host_spoke, raised>>
hostVars == <<host_read, host_acked, host_answered, host_retracted>>
histVars == <<primary, got, queued, ack_seen, waiting_since>>
monVars == <<mon, mk, at_cleanup>>
waitVars == <<start_time, k, data, user_input, ack_received>>
clockVars == <<env, now, msNow>>

\* ------------------------------------------------------------------ the store
Exists(n) == n \in DOMAIN files
Read(n) == IF n \in DOMAIN files THEN files[n] ELSE Absent
Write(n, d) == [x \in DOMAIN files \cup {n} |-> IF x = n THEN d ELSE files[x]]
Unlink(n) == [x \in DOMAIN files \ {n} |-> files[x]]

NoResult == [text |-> <<>>, images |-> <<>>]
NoFiles == [x \in {} |-> Absent]

\* ------------------------------------------------------------------ environment
\* What surrounds the server in one run: how many tool invocations arrive and
\* for which tools, whether writes to the store can fail, which trigger names
\* the host reads, and how many and which documents the host writes.
Chat == {"review_gate_chat"}
\* The name shutdown_mcp given to call_tool, told apart from an entry into
\* _handle_shutdown_mcp itself, which call_tool never makes.
ShutdownByName == "call_tool: shutdown_mcp"
\* names call_tool has no branch for
Unrouted == {"quick_review", ShutdownByName}
\* _handle_shutdown_mcp entered by a caller other than call_tool
Shutdown == {"shutdown_mcp"}

Route_WithShutdown(name) ==
    IF name = "review_gate_chat" THEN "review_gate_chat"
    ELSE IF name = ShutdownByName THEN "shutdown_mcp"
    ELSE "unknown"

\* if name == "review_gate_chat": ... else: raise ValueError (lines 227-232)
Route(name) == IF name = "review_gate_chat" THEN "review_gate_chat" ELSE "unknown"

\* What an entry of env.tools runs: the handler call_tool routes the name to,
\* or _handle_shutdown_mcp for a direct entry.
Runs(n) == IF n \in Shutdown THEN "shutdown_mcp" ELSE Route(n)

Scenarios ==
    { \* one emission whose writes may fail, and a host that consumes any trigger
      [name |-> "emit", tools |-> <<Chat, Unrouted>>,
       faults |-> TRUE, consume |-> TriggerNames, acks |-> 0, answers |-> 0,
       docs |-> "none", patterns |-> {}, own |-> TRUE,
       whisper |-> FALSE, speech |-> 0, kinds |-> {}, retract |-> FALSE, until |-> Horizon],
      \* emissions race with each other and with the host
      [name |-> "race", tools |-> [i \in Inv |-> Chat],
       faults |-> FALSE, consume |-> TriggerNames, acks |-> 0, answers |-> 0,
       docs |-> "none", patterns |-> {}, own |-> TRUE,
       whisper |-> FALSE, speech |-> 0, kinds |-> {}, retract |-> FALSE, until |-> Horizon],
      \* one chat invocation and a host that acknowledges, then answers
      [name |-> "ack", tools |-> <<Chat>>,
       faults |-> FALSE, consume |-> {TriggerFile}, acks |-> MaxAcks,
       answers |-> MaxAnswers, docs |-> "plain", patterns |-> {1}, own |-> TRUE,
       whisper |-> FALSE, speech |-> 0, kinds |-> {}, retract |-> FALSE, until |-> MaxTime],
      \* one invocation and every kind of response document
      [name |-> "response", tools |-> <<Chat \cup Shutdown>>,
       faults |-> FALSE, consume |-> {TriggerFile}, acks |-> 0,
       answers |-> MaxAnswers, docs |-> "all", patterns |-> 1 .. 4, own |-> TRUE,
       whisper |-> FALSE, speech |-> 0, kinds |-> {}, retract |-> FALSE, until |-> Horizon],
      \* concurrent chat invocations share the unscoped response names
      [name |-> "concurrent", tools |-> [i \in Inv |-> Chat],
       faults |-> FALSE, consume |-> {TriggerFile}, acks |-> 0,
       answers |-> MaxAnswers, docs |-> "some", patterns |-> {1, 2}, own |-> FALSE,
       whisper |-> FALSE, speech |-> 0, kinds |-> {}, retract |-> FALSE, until |-> Horizon],
      \* a confirmed shutdown_mcp, then chats, and the monitor's cleanup
      [name |-> "shutdown", tools |-> [i \in Inv |-> IF i = 1 THEN Shutdown ELSE Chat],
       faults |-> FALSE, consume |-> TriggerNames, acks |-> 0,
       answers |-> MaxAnswers, docs |-> "confirm", patterns |-> {1}, own |-> TRUE,
       whisper |-> FALSE, speech |-> 0, kinds |-> {}, retract |-> FALSE, until |-> ShortRun],
      \* a confirmed shutdown_mcp whose host acknowledges and answers twice
      [name |-> "leftover", tools |-> <<Shutdown>>,
       faults |-> FALSE, consume |-> {TriggerFile}, acks |-> 1,
       answers |-> MaxAnswers + 1, docs |-> "confirm", patterns |-> {1, 2}, own |-> TRUE,
       whisper |-> FALSE, speech |-> 0, kinds |-> {}, retract |-> FALSE, until |-> ShortRun],
      \* speech_to_text requests with the Whisper model loaded, and a shutdown_mcp
      [name |-> "speech", tools |-> <<Shutdown>>,
       faults |-> FALSE, consume |-> {TriggerFile}, acks |-> 0,
       answers |-> MaxAnswers, docs |-> "confirm", patterns |-> {1}, own |-> TRUE,
       whisper |-> TRUE, speech |-> MaxSpeech,
       kinds |-> {"audio", "no_audio", "no_field", "other_tool", "truncated"},
       retract |-> FALSE, until |-> ShortRun],
      \* the same with no Whisper model
      [name |-> "no_whisper", tools |-> <<Shutdown>>,
       faults |-> FALSE, consume |-> {TriggerFile}, acks |-> 0,
       answers |-> MaxAnswers, docs |-> "confirm", patterns |-> {1}, own |-> TRUE,
       whisper |-> FALSE, speech |-> MaxSpeech,
       kinds |-> {"audio", "no_field"}, retract |-> FALSE, until |-> ShortRun],
      \* a chat whose host takes back the documents it wrote
      [name |-> "vanish", tools |-> <<Chat>>,
       faults |-> FALSE, consume |-> {TriggerFile}, acks |-> 1,
       answers |-> MaxAnswers, docs |-> "plain", patterns |-> {1}, own |-> TRUE,
       whisper |-> FALSE, speech |-> 0, kinds |-> {}, retract |-> TRUE, until |-> Horizon],
      \* a chat whose host acknowledges, beside speech requests that may not parse
      [name |-> "errors", tools |-> <<Chat>>,
       faults |-> FALSE, consume |-> {TriggerFile}, acks |-> MaxAcks,
       answers |-> 0, docs |-> "none", patterns |-> {}, own |-> TRUE,
       whisper |-> TRUE, speech |-> MaxSpeech, kinds |-> {"truncated", "audio"},
       retract |-> FALSE, until |-> Horizon],
      \* a chat whose host leaves several documents under the four response names
      [name |-> "candidates", tools |-> <<Chat>>,
       faults |-> FALSE, consume |-> {TriggerFile}, acks |-> 0,
       answers |-> MaxAnswers + 1, docs |-> "mixed", patterns |-> 1 .. 4, own |-> TRUE,
       whisper |-> FALSE, speech |-> 0, kinds |-> {}, retract |-> FALSE, until |-> Horizon] }

\* Nothing has been called yet: the state of the server after construction,
\* but for the files of the temp directory.
ServerIdle ==
    /\ now = 0
    /\ msNow = 0
    /\ running = None
    /\ pc = [i \in Inv |-> "idle"]
    /\ tool = [i \in Inv |-> "none"]
    /\ trigger_id = [i \in Inv |-> NoId]
    /\ wake = [i \in Inv |-> 0]
    /\ start_time = [i \in Inv |-> 0]
    /\ k = [i \in Inv |-> 0]
    /\ data = [i \in Inv |-> Absent]
    /\ user_input = [i \in Inv |-> <<>>]
    /\ ack_received = [i \in Inv |-> FALSE]
    /\ result = [i \in Inv |-> NoResult]
    /\ last_attachments = <<>>
    /\ shutdown_requested = FALSE
    /\ mon = "wait"
    /\ mk = 0
    /\ emit = [i \in Inv |-> "none"]
    /\ primary = [i \in Inv |-> "none"]
    /\ got = [i \in Inv |-> 0]
    /\ backup_failed = [i \in Inv |-> FALSE]
    /\ at_cleanup = {}
    /\ host_read = {}
    /\ host_acked = [i \in Inv |-> 0]
    /\ host_answered = [i \in Inv |-> 0]
    /\ host_retracted = {}
    /\ sp = "loop"
    /\ sq = <<>>
    /\ sdata = Absent
    /\ host_spoke = {}
    /\ raised = {}
    /\ queued = {}
    /\ ack_seen = [i \in Inv |-> <<>>]
    /\ waiting_since = [i \in Inv |-> 0]

Init ==
    /\ env \in Scenarios
    /\ files = NoFiles
    /\ ServerIdle

\* ------------------------------------------------------------------ results
IsImage_AnyType(mime) == TRUE

\* mimeType.startswith("image/")
IsImage(mime) == mime \in {"image/png", "image/jpeg"}

\* The ImageContent items _handle_review_gate_chat builds from _last_attachments.
RECURSIVE ImageItems(_)
ImageItems(atts) ==
    IF atts = <<>> THEN <<>>
    ELSE (IF IsImage(Head(atts).mimeType)
          THEN <<[data |-> Head(atts).base64Data, mimeType |-> Head(atts).mimeType]>>
          ELSE <<>>) \o ImageItems(Tail(atts))

ChatResponse(text, atts) ==
    [text |-> <<"User Response: ">> \o text, images |-> ImageItems(atts)]
ChatTimeout ==
    [text |-> <<"TIMEOUT: ", "No user input received for review gate within 5 minutes">>,
     images |-> <<>>]
ChatError ==
    [text |-> <<"ERROR: ", "Failed to trigger Review Gate popup">>, images |-> <<>>]

ToolError_Raised(name) == [text |-> <<>>, images |-> <<>>]

\* What call_tool returns from its except branch (lines 233-240) for a name it
\* does not route: f"ERROR: Tool {name} failed: {str(e)}"
ToolError(name) ==
    [text |-> <<"ERROR: ", "Tool ", name, " failed: ", "Unknown tool: ", name>>,
     images |-> <<>>]

ConfirmWords == {<<"Y">>, <<"Y", "E", "S">>, <<"C", "O", "N", "F", "I", "R", "M">>,
                 <<"S", "H", "U", "T", "D", "O", "W", "N">>,
                 <<"P", "R", "O", "C", "E", "E", "D">>}
Confirms_CaseSensitive(text) == Strip(text) \in ConfirmWords

\* user_input.upper().strip() in confirm_words (line 732)
Confirms(text) == Strip(Upper(text)) \in ConfirmWords

ShutdownConfirmed(text) == [text |-> <<"shutdown_mcp CONFIRMED: ">> \o text, images |-> <<>>]
ShutdownCancelled(text) == [text |-> <<"shutdown_mcp CANCELLED: ">> \o text, images |-> <<>>]
ShutdownTimeout == [text |-> <<"shutdown_mcp timed out">>, images |-> <<>>]
ShutdownError == [text |-> <<"shutdown_mcp trigger failed">>, images |-> <<>>]

\* What the handler returns when _trigger_cursor_popup_immediately returned False.
EmitFailureResult(t) == IF t = "review_gate_chat" THEN ChatError ELSE ShutdownError

\* ------------------------------------------------------------------ invocation
Prefix(t) == IF t = "review_gate_chat" THEN "review" ELSE "shutdown"

\* A handler is entered: it reads the clock for its trigger_id and runs
\* _trigger_cursor_popup_immediately up to its first await, asyncio.sleep(0.1).
Invoke(i, t) ==
    /\ pc[i] = "idle"
    /\ i \in DOMAIN env.tools
    /\ t \in {Runs(n) : n \in env.tools[i]} \ {"unknown"}
    /\ \A j \in Inv : j < i => pc[j] # "idle"
    /\ running = None
    /\ mon # "done"
    /\ \E ms \in {msNow, msNow + 1} :
          /\ ms <= MaxMs
          /\ msNow' = ms
          /\ trigger_id' = [trigger_id EXCEPT ![i] = TriggerId(Prefix(t), ms)]
    /\ tool' = [tool EXCEPT ![i] = t]
    /\ pc' = [pc EXCEPT ![i] = "emit_sleep"]
    /\ wake' = [wake EXCEPT ![i] = now + CheckInterval]
    /\ UNCHANGED <<env, speechVars, now, files, running, waitVars, result, last_attachments,
                   shutdown_requested, monVars, emit, backup_failed, hostVars, histVars>>

\* call_tool with a name other than "review_gate_chat": the else branch at
\* lines 229-232 sleeps 1.0 s before it raises ValueError.
CallUnknown(i, t) ==
    /\ pc[i] = "idle"
    /\ i \in DOMAIN env.tools
    /\ t \in {n \in env.tools[i] : Runs(n) = "unknown"}
    /\ \A j \in Inv : j < i => pc[j] # "idle"
    /\ running = None
    /\ mon # "done"
    /\ tool' = [tool EXCEPT ![i] = t]
    /\ pc' = [pc EXCEPT ![i] = "unknown_sleep"]
    /\ wake' = [wake EXCEPT ![i] = now + ErrorBackoff]
    /\ UNCHANGED <<clockVars, speechVars, files, running, trigger_id, waitVars, result,
                   last_attachments, shutdown_requested, monVars, emit, backup_failed,
                   hostVars, histVars>>

\* raise ValueError, caught at line 233: the except branch sleeps 1.0 s.
UnknownRaises(i) ==
    /\ pc[i] = "unknown_sleep"
    /\ running = None
    /\ now >= wake[i]
    /\ pc' = [pc EXCEPT ![i] = "error_sleep"]
    /\ wake' = [wake EXCEPT ![i] = now + ErrorBackoff]
    /\ UNCHANGED <<clockVars, speechVars, files, running, tool, trigger_id, waitVars,
                   result, last_attachments, shutdown_requested, monVars, emit,
                   backup_failed, hostVars, histVars>>

\* return [TextContent(type="text", text=f"ERROR: Tool {name} failed: ...")]
CallToolFails(i) ==
    /\ pc[i] = "error_sleep"
    /\ running = None
    /\ now >= wake[i]
    /\ pc' = [pc EXCEPT ![i] = "done"]
    /\ result' = [result EXCEPT ![i] = ToolError(tool[i])]
    /\ wake' = [wake EXCEPT ![i] = 0]
    /\ UNCHANGED <<clockVars, speechVars, files, running, tool, trigger_id, waitVars,
                   last_attachments, shutdown_requested, monVars, emit, backup_failed,
                   hostVars, histVars>>

\* ------------------------------------------------------------------ emitter
EmitFails_WaitsAnyway(i, cause) ==
    /\ emit' = [emit EXCEPT ![i] = cause]
    /\ pc' = [pc EXCEPT ![i] = "resp_sleep"]
    /\ running' = None
    /\ wake' = [wake EXCEPT ![i] = now]
    /\ UNCHANGED result

\* The handler's return after a failed emission (lines 413-416, 771-777).
EmitFails(i, cause) ==
    /\ emit' = [emit EXCEPT ![i] = cause]
    /\ result' = [result EXCEPT ![i] = EmitFailureResult(tool[i])]
    /\ pc' = [pc EXCEPT ![i] = "done"]
    /\ running' = None
    /\ wake' = [wake EXCEPT ![i] = 0]

\* How a write_text can end: "zero" leaves a zero-length file without raising.
WriteOutcomes == IF env.faults THEN {"ok", "raise", "zero"} ELSE {"ok"}
BackupOutcomes == IF env.faults THEN {"ok", "raise"} ELSE {"ok"}

\* trigger_file.write_text(...): it succeeds, raises, or leaves a zero-length file.
EmitWrite(i) ==
    /\ pc[i] = "emit_sleep"
    /\ running = None
    /\ now >= wake[i]
    /\ \E outcome \in WriteOutcomes :
          CASE outcome = "ok" ->
                  /\ files' = Write(TriggerFile, TriggerDoc(i, tool[i], trigger_id[i]))
                  /\ primary' = [primary EXCEPT ![i] = "ok"]
                  /\ pc' = [pc EXCEPT ![i] = "emit_exists"]
                  /\ running' = i
                  /\ UNCHANGED <<wake, emit>>
            [] outcome = "zero" ->
                  /\ files' = Write(TriggerFile, EmptyDoc)
                  /\ primary' = [primary EXCEPT ![i] = "zero"]
                  /\ pc' = [pc EXCEPT ![i] = "emit_exists"]
                  /\ running' = i
                  /\ UNCHANGED <<wake, emit>>
            [] OTHER ->
                  \* except Exception: await asyncio.sleep(1.0); return False
                  /\ pc' = [pc EXCEPT ![i] = "emit_raised"]
                  /\ wake' = [wake EXCEPT ![i] = now + ErrorBackoff]
                  /\ emit' = [emit EXCEPT ![i] = "raised"]
                  /\ primary' = [primary EXCEPT ![i] = "raised"]
                  /\ UNCHANGED <<files, running>>
    /\ UNCHANGED <<clockVars, speechVars, tool, trigger_id, waitVars, result, last_attachments,
                   shutdown_requested, monVars, backup_failed, hostVars, got, queued, ack_seen,
                   waiting_since>>

\* return False of the except branch, and the handler's error return.
EmitRaised(i) ==
    /\ pc[i] = "emit_raised"
    /\ running = None
    /\ now >= wake[i]
    /\ EmitFails(i, "raised")
    /\ UNCHANGED <<clockVars, speechVars, files, tool, trigger_id, waitVars, last_attachments,
                   shutdown_requested, monVars, backup_failed, hostVars, histVars>>

\* if not trigger_file.exists(): return False
EmitExists(i) ==
    /\ pc[i] = "emit_exists"
    /\ running = i
    /\ IF Exists(TriggerFile)
       THEN /\ pc' = [pc EXCEPT ![i] = "emit_stat"]
            /\ UNCHANGED <<emit, result, running, wake>>
       ELSE EmitFails(i, "absent")
    /\ UNCHANGED <<clockVars, speechVars, files, tool, trigger_id, waitVars, last_attachments,
                   shutdown_requested, monVars, backup_failed, hostVars, histVars>>

\* trigger_file.stat().st_size: zero is a failure, FileNotFoundError is not.
EmitStat(i) ==
    /\ pc[i] = "emit_stat"
    /\ running = i
    /\ IF Exists(TriggerFile) /\ Size(files[TriggerFile]) = 0
       THEN /\ EmitFails(i, "zero")
            /\ UNCHANGED k
       ELSE /\ pc' = [pc EXCEPT ![i] = "emit_backup"]
            /\ k' = [k EXCEPT ![i] = 0]
            /\ emit' = [emit EXCEPT ![i] = "verified"]
            /\ UNCHANGED <<result, running, wake>>
    /\ UNCHANGED <<clockVars, speechVars, files, tool, trigger_id, start_time, data, user_input,
                   ack_received, last_attachments, shutdown_requested, monVars,
                   backup_failed, hostVars, histVars>>

\* The backups are done (or given up): await asyncio.sleep(0.2).
BackupsEnd(i) ==
    /\ pc' = [pc EXCEPT ![i] = "emit_settle"]
    /\ wake' = [wake EXCEPT ![i] = now + 2 * CheckInterval]
    /\ running' = None

BackupRaises_Fatal(i) ==
    /\ backup_failed' = [backup_failed EXCEPT ![i] = TRUE]
    /\ EmitFails(i, "backup")
    /\ UNCHANGED <<files, k>>

\* except Exception of _create_backup_triggers: a warning, and the emission
\* goes on.
BackupRaises(i) ==
    /\ backup_failed' = [backup_failed EXCEPT ![i] = TRUE]
    /\ BackupsEnd(i)
    /\ UNCHANGED <<files, k, emit, result>>

\* One turn of the loop of _create_backup_triggers; a write that raises ends
\* the loop in its except branch.
EmitBackup(i) ==
    /\ pc[i] = "emit_backup"
    /\ running = i
    /\ \E outcome \in BackupOutcomes :
          IF outcome = "ok"
          THEN /\ files' = Write(BackupFile(k[i]),
                                 BackupDoc(i, tool[i], trigger_id[i], k[i]))
               /\ k' = [k EXCEPT ![i] = k[i] + 1]
               /\ UNCHANGED <<backup_failed, emit, result>>
               /\ IF k[i] + 1 < NumBackups
                  THEN UNCHANGED <<pc, wake, running>>
                  ELSE BackupsEnd(i)
          ELSE BackupRaises(i)
    /\ UNCHANGED <<clockVars, speechVars, tool, trigger_id, start_time, data, user_input,
                   ack_received, last_attachments, shutdown_requested, monVars,
                   hostVars, histVars>>

FirstWait_NoAck(t) == "resp_loop"

\* The first wait of a handler after a successful emission: review_gate_chat
\* waits for the acknowledgement (lines 362-365), shutdown_mcp does not.
FirstWait(t) == IF t = "review_gate_chat" THEN "ack_loop" ELSE "resp_loop"

\* return True, and the handler goes on to its first wait: review_gate_chat to
\* _wait_for_extension_acknowledgement, shutdown_mcp to _wait_for_user_input.
EmitSettle(i) ==
    /\ pc[i] = "emit_settle"
    /\ running = None
    /\ now >= wake[i]
    /\ running' = i
    /\ emit' = [emit EXCEPT ![i] = "ok"]
    /\ start_time' = [start_time EXCEPT ![i] = now]
    /\ pc' = [pc EXCEPT ![i] = FirstWait(tool[i])]
    /\ waiting_since' = [waiting_since EXCEPT ![i] = now]
    /\ UNCHANGED <<clockVars, speechVars, files, tool, trigger_id, wake, k, data, user_input,
                   ack_received, result, last_attachments, shutdown_requested, monVars,
                   backup_failed, hostVars, primary, got, queued, ack_seen>>

\* ------------------------------------------------------------------ waiters
\* The locals of a call that has returned are gone.
Forget(i) ==
    /\ wake' = [wake EXCEPT ![i] = 0]
    /\ start_time' = [start_time EXCEPT ![i] = 0]
    /\ k' = [k EXCEPT ![i] = 0]
    /\ data' = [data EXCEPT ![i] = Absent]
    /\ user_input' = [user_input EXCEPT ![i] = <<>>]

\* The valid speech_to_text requests in the store that the speech thread has
\* not globbed yet.
Waiting ==
    {x \in SpeechSlots :
        /\ Exists(SpeechTrigger(x))
        /\ Parseable(files[SpeechTrigger(x)])
        /\ files[SpeechTrigger(x)].data.tool = "speech_to_text"
        /\ {"audio_file", "trigger_id"} \subseteq files[SpeechTrigger(x)].has
        /\ \A y \in 1 .. Len(sq) : sq[y] # x}

\* The handler's return once _wait_for_user_input has returned text (a
\* non-empty string) or None (text = <<>>): lines 375-412 and 729-777.
HandlerReturns(i, text) ==
    /\ pc' = [pc EXCEPT ![i] = "done"]
    /\ got' = [got EXCEPT ![i] = IF text # <<>> THEN data[i].for ELSE 0]
    /\ running' = None
    /\ Forget(i)
    /\ IF tool[i] = "review_gate_chat"
       THEN /\ result' = [result EXCEPT ![i] =
                   IF text # <<>> THEN ChatResponse(text, last_attachments)
                   ELSE ChatTimeout]
            /\ UNCHANGED shutdown_requested
       ELSE /\ result' = [result EXCEPT ![i] =
                   IF text = <<>> THEN ShutdownTimeout
                   ELSE IF Confirms(text) THEN ShutdownConfirmed(text)
                   ELSE ShutdownCancelled(text)]
            /\ shutdown_requested' =
                   (IF text # <<>> /\ Confirms(text) THEN TRUE ELSE shutdown_requested)
    /\ queued' = IF tool[i] = "shutdown_mcp" /\ text # <<>> /\ Confirms(text)
                    /\ ~shutdown_requested
                 THEN Waiting ELSE queued
    /\ UNCHANGED <<ack_seen, waiting_since>>

TimedOut_Early(start, timeout) == now - start >= timeout - 1

\* while time.time() - start_time < timeout, negated
TimedOut(start, timeout) == now - start >= timeout

AckStatus_DefaultTrue(d) == IF "acknowledged" \in d.has THEN d.acknowledged ELSE TRUE

\* data.get("acknowledged", False)
AckStatus(d) == IF "acknowledged" \in d.has THEN d.acknowledged ELSE FALSE

AckReturns_Fatal(i, r) ==
    /\ ack_received' = [ack_received EXCEPT ![i] = r]
    /\ start_time' = [start_time EXCEPT ![i] = now]
    /\ pc' = [pc EXCEPT ![i] = IF r THEN "resp_loop" ELSE "done"]

AckReturns_SharedStart(i, r) ==
    /\ ack_received' = [ack_received EXCEPT ![i] = r]
    /\ pc' = [pc EXCEPT ![i] = "resp_loop"]
    /\ UNCHANGED start_time

\* _wait_for_extension_acknowledgement returned r: the handler enters
\* _wait_for_user_input (lines 366-373), whatever r is.
AckReturns(i, r) ==
    /\ ack_received' = [ack_received EXCEPT ![i] = r]
    /\ start_time' = [start_time EXCEPT ![i] = now]
    /\ pc' = [pc EXCEPT ![i] = "resp_loop"]

\* await asyncio.sleep(d)
Sleep(i, label, d) ==
    /\ pc' = [pc EXCEPT ![i] = label]
    /\ wake' = [wake EXCEPT ![i] = now + d]
    /\ running' = None

\* The loop test and ack_file.exists() of one poll.
AckLoop(i) ==
    /\ pc[i] = "ack_loop"
    /\ running = i
    /\ IF TimedOut(start_time[i], AckTimeout)
       THEN /\ AckReturns(i, FALSE)
            /\ UNCHANGED <<wake, running>>
       ELSE IF Exists(AckFile(trigger_id[i]))
       THEN /\ pc' = [pc EXCEPT ![i] = "ack_read"]
            /\ UNCHANGED <<wake, running, ack_received, start_time>>
       ELSE /\ Sleep(i, "ack_sleep", CheckInterval)
            /\ UNCHANGED <<ack_received, start_time>>
    /\ UNCHANGED <<clockVars, speechVars, files, tool, trigger_id, k, data, user_input, result,
                   last_attachments, shutdown_requested, monVars, emit, backup_failed,
                   hostVars, histVars>>

AckReadFails_Fatal(i) ==
    /\ pc' = [pc EXCEPT ![i] = "resp_loop"]
    /\ UNCHANGED <<wake, running>>

\* except Exception as e: logger.error(...); await asyncio.sleep(0.5)
AckReadFails(i) == Sleep(i, "ack_sleep", ErrorBackoff)

\* json.loads(ack_file.read_text()): a missing or unparseable file raises into
\* the except branch, which sleeps 0.5 s and polls again.
AckRead(i) ==
    /\ pc[i] = "ack_read"
    /\ running = i
    /\ IF Parseable(Read(AckFile(trigger_id[i])))
       THEN /\ data' = [data EXCEPT ![i] = Read(AckFile(trigger_id[i]))]
            /\ pc' = [pc EXCEPT ![i] = "ack_unlink"]
            /\ UNCHANGED <<wake, running, ack_seen>>
       ELSE /\ AckReadFails(i)
            /\ ack_seen' = [ack_seen EXCEPT ![i] = Append(ack_seen[i], "error")]
            /\ UNCHANGED data
    /\ UNCHANGED <<clockVars, speechVars, files, tool, trigger_id, start_time, k, user_input,
                   ack_received, result, last_attachments, shutdown_requested, monVars,
                   emit, backup_failed, hostVars, primary, got, queued, waiting_since>>

AckCleanup_WhenTrue(i) ==
    IF AckStatus(data[i]) THEN Unlink(AckFile(trigger_id[i])) ELSE files

AckCleanup_AndBackup(i) ==
    [x \in DOMAIN files \ {AckFile(trigger_id[i]), BackupFile(0)} |-> files[x]]

\* ack_file.unlink(), whatever ack_status is
AckCleanup(i) == Unlink(AckFile(trigger_id[i]))

\* ack_file.unlink() (a failure is ignored), then return True or sleep.
AckUnlink(i) ==
    /\ pc[i] = "ack_unlink"
    /\ running = i
    /\ files' = AckCleanup(i)
    /\ ack_seen' = [ack_seen EXCEPT ![i] =
           Append(ack_seen[i], IF AckStatus(data[i]) THEN "true" ELSE "false")]
    /\ IF AckStatus(data[i])
       THEN /\ AckReturns(i, TRUE)
            /\ UNCHANGED <<wake, running>>
       ELSE /\ Sleep(i, "ack_sleep", CheckInterval)
            /\ UNCHANGED <<ack_received, start_time>>
    /\ UNCHANGED <<clockVars, speechVars, tool, trigger_id, k, data, user_input, result,
                   last_attachments, shutdown_requested, monVars, emit, backup_failed,
                   hostVars, primary, got, queued, waiting_since>>

AckWake(i) ==
    /\ pc[i] = "ack_sleep"
    /\ running = None
    /\ now >= wake[i]
    /\ running' = i
    /\ pc' = [pc EXCEPT ![i] = "ack_loop"]
    /\ UNCHANGED <<clockVars, speechVars, files, tool, trigger_id, wake, waitVars, result,
                   last_attachments, shutdown_requested, monVars, emit, backup_failed,
                   hostVars, histVars>>

\* --- _wait_for_user_input
\* timeout=300 in _handle_review_gate_chat, timeout=60 in _handle_shutdown_mcp
ResponseTimeout(t) == IF t = "review_gate_chat" THEN RespTimeout ELSE ConfirmTimeout

ResponseText_FirstNonEmpty(d) ==
    IF "user_input" \in d.has /\ d.user_input # <<>> THEN d.user_input
    ELSE IF "response" \in d.has /\ d.response # <<>> THEN d.response
    ELSE IF "message" \in d.has THEN d.message
    ELSE <<>>

\* data.get("user_input", data.get("response", data.get("message", "")))
ResponseText(d) ==
    IF "user_input" \in d.has THEN d.user_input
    ELSE IF "response" \in d.has THEN d.response
    ELSE IF "message" \in d.has THEN d.message
    ELSE <<>>

Mismatch_IdRequired(d, tid) == d.trigger_id # tid

\* response_trigger_id and response_trigger_id != trigger_id
Mismatch(d, tid) == d.trigger_id # NoId /\ d.trigger_id # tid

\* attachment_descriptions: one "Image: <fileName>" per image attachment
RECURSIVE AttachmentDescriptions(_)
AttachmentDescriptions(atts) ==
    IF atts = <<>> THEN <<>>
    ELSE (IF IsImage(Head(atts).mimeType)
          THEN << <<"Image: ", Head(atts).fileName>> >>
          ELSE <<>>) \o AttachmentDescriptions(Tail(atts))

\* ", ".join(descs)
RECURSIVE Join(_)
Join(descs) ==
    IF descs = <<>> THEN <<>>
    ELSE IF Len(descs) = 1 THEN Head(descs)
    ELSE Head(descs) \o <<", ">> \o Join(Tail(descs))

\* user_input once the attachments have been looked at (lines 881-897)
WithAttachments(text, atts) ==
    IF AttachmentDescriptions(atts) # <<>>
    THEN text \o <<"\n\nAttached: ">> \o Join(AttachmentDescriptions(atts))
    ELSE text

JsonUserInput_Unstripped(d) == WithAttachments(ResponseText(d), d.attachments)

\* user_input of a JSON response document
JsonUserInput(d) == WithAttachments(Strip(ResponseText(d)), d.attachments)

\* user_input of a plain text document: file_content, stripped at the read
PlainUserInput(d) == Strip(d.body)

Attachments_ImagesOnly(d) ==
    IF StartsWithBrace(d)
    THEN SelectSeq(d.attachments, LAMBDA a : IsImage(a.mimeType))
    ELSE <<>>

Attachments_KeptWhenNone(d) ==
    IF StartsWithBrace(d) /\ d.attachments # <<>> THEN d.attachments ELSE last_attachments

\* self._last_attachments after a document is taken: its attachments list
\* (lines 881-899), or [] for plain text (line 904)
Attachments(d) == IF StartsWithBrace(d) THEN d.attachments ELSE <<>>

\* The name of the response pattern at hand.
Pattern(i) == ResponsePatterns(trigger_id[i])[k[i]]

NextPattern_Breaks(i) ==
    /\ Sleep(i, "resp_sleep", CheckInterval)
    /\ UNCHANGED k

\* The for loop moves to the next pattern, or the poll ends in asyncio.sleep.
NextPattern(i) ==
    IF k[i] < Len(ResponsePatterns(trigger_id[i]))
    THEN /\ k' = [k EXCEPT ![i] = k[i] + 1]
         /\ pc' = [pc EXCEPT ![i] = "resp_exists"]
         /\ UNCHANGED <<wake, running>>
    ELSE /\ Sleep(i, "resp_sleep", CheckInterval)
         /\ UNCHANGED k

\* The loop test of one poll; past the timeout the waiter returns None.
RespLoop(i) ==
    /\ pc[i] = "resp_loop"
    /\ running = i
    /\ IF TimedOut(start_time[i], ResponseTimeout(tool[i]))
       THEN HandlerReturns(i, <<>>)
       ELSE /\ k' = [k EXCEPT ![i] = 1]
            /\ pc' = [pc EXCEPT ![i] = "resp_exists"]
            /\ UNCHANGED <<running, result, shutdown_requested, wake, start_time, data,
                           user_input, got, queued, ack_seen,
                           waiting_since>>
    /\ UNCHANGED <<clockVars, speechVars, files, tool, trigger_id, ack_received, last_attachments,
                   monVars, emit, backup_failed, hostVars, primary>>

\* if response_file.exists()
RespExists(i) ==
    /\ pc[i] = "resp_exists"
    /\ running = i
    /\ IF Exists(Pattern(i))
       THEN /\ pc' = [pc EXCEPT ![i] = "resp_read"]
            /\ UNCHANGED <<k, wake, running>>
       ELSE NextPattern(i)
    /\ UNCHANGED <<clockVars, speechVars, files, tool, trigger_id, start_time, data, user_input,
                   ack_received, result, last_attachments, shutdown_requested, monVars,
                   emit, backup_failed, hostVars, histVars>>

\* The document is one this waiter takes: plain text, or a JSON object that
\* declares this trigger_id or none.
Accepts(d, tid) ==
    /\ d # Absent
    /\ StartsWithBrace(d) => Parseable(d) /\ ~Mismatch(d, tid)

Skipped_Unparseable(i) ==
    IF Exists(Pattern(i)) /\ ~Parseable(files[Pattern(i)])
    THEN Unlink(Pattern(i)) ELSE files

\* The store after a document is skipped: the continue at line 878 and the
\* except branches at lines 927-935 unlink nothing.
Skipped(i) == files

\* Lines 851-904: read, parse, extract, compare the ids, store the attachments.
\* A file that is gone, a body json.loads rejects and a mismatching id all
\* leave the file alone and go on with the next pattern.
RespRead(i) ==
    /\ pc[i] = "resp_read"
    /\ running = i
    /\ IF Accepts(Read(Pattern(i)), trigger_id[i])
       THEN /\ data' = [data EXCEPT ![i] = Read(Pattern(i))]
            /\ user_input' = [user_input EXCEPT ![i] =
                   IF StartsWithBrace(Read(Pattern(i)))
                   THEN JsonUserInput(Read(Pattern(i)))
                   ELSE PlainUserInput(Read(Pattern(i)))]
            /\ last_attachments' = Attachments(Read(Pattern(i)))
            /\ pc' = [pc EXCEPT ![i] = "resp_unlink"]
            /\ UNCHANGED <<k, wake, running, files>>
       ELSE /\ NextPattern(i)
            /\ files' = Skipped(i)
            /\ UNCHANGED <<data, user_input, last_attachments>>
    /\ UNCHANGED <<clockVars, speechVars, tool, trigger_id, start_time, ack_received, result,
                   shutdown_requested, monVars, emit, backup_failed, hostVars, histVars>>

ReturnsText_IfDeleted(i) == user_input[i] # <<>> /\ Exists(Pattern(i))

\* if user_input: (line 915), tested after the unlink whether or not it failed
ReturnsText(i) == user_input[i] # <<>>

\* response_file.unlink() (a failure is ignored), then return user_input if it
\* is not empty, and otherwise go on with the next pattern.
RespUnlink(i) ==
    /\ pc[i] = "resp_unlink"
    /\ running = i
    /\ files' = Unlink(Pattern(i))
    /\ IF ReturnsText(i)
       THEN HandlerReturns(i, user_input[i])
       ELSE /\ NextPattern(i)
            /\ UNCHANGED <<result, shutdown_requested, start_time, data, user_input, got,
                           queued, ack_seen, waiting_since>>
    /\ UNCHANGED <<clockVars, speechVars, tool, trigger_id, ack_received, last_attachments,
                   monVars, emit, backup_failed, hostVars, primary>>

RespWake_Preempts(i) ==
    /\ pc[i] = "resp_sleep"
    /\ now >= wake[i]
    /\ running' = i
    /\ pc' = [pc EXCEPT ![i] = "resp_loop"]
    /\ UNCHANGED <<clockVars, speechVars, files, tool, trigger_id, wake, waitVars, result,
                   last_attachments, shutdown_requested, monVars, emit, backup_failed,
                   hostVars, histVars>>

\* The event loop resumes the waiter when its sleep is over and no other
\* coroutine is running.
RespWake(i) ==
    /\ pc[i] = "resp_sleep"
    /\ running = None
    /\ now >= wake[i]
    /\ running' = i
    /\ pc' = [pc EXCEPT ![i] = "resp_loop"]
    /\ UNCHANGED <<clockVars, speechVars, files, tool, trigger_id, wake, waitVars, result,
                   last_attachments, shutdown_requested, monVars, emit, backup_failed,
                   hostVars, histVars>>

\* ------------------------------------------------------------------ lifecycle
TempFiles_WithResponse ==
    <<TriggerFile, BackupFile(0), BackupFile(1), BackupFile(2), <<"review_gate_response">>>>

\* temp_files of _monitor_shutdown
TempFiles == <<TriggerFile, BackupFile(0), BackupFile(1), BackupFile(2)>>

ShutdownSeen_Always == TRUE

\* the test of while not self.shutdown_requested, negated
ShutdownSeen == shutdown_requested

\* while not self.shutdown_requested: await asyncio.sleep(1)
MonitorWake ==
    /\ mon = "wait"
    /\ running = None
    /\ ShutdownSeen
    /\ running' = Monitor
    /\ mon' = "exists"
    /\ mk' = 1
    /\ at_cleanup' = {n \in TriggerNames : Exists(n)}
    /\ UNCHANGED <<clockVars, speechVars, files, pc, tool, trigger_id, wake, waitVars, result,
                   last_attachments, shutdown_requested, emit, backup_failed, hostVars, histVars>>

\* The for loop moves to the next temp_file, or the cleanup is over and the
\* coroutine returns True.
MonitorNext ==
    IF mk < Len(TempFiles)
    THEN /\ mk' = mk + 1
         /\ mon' = "exists"
         /\ UNCHANGED running
    ELSE /\ mon' = "done"
         /\ running' = None
         /\ UNCHANGED mk

\* if Path(temp_file).exists()
MonitorExists ==
    /\ mon = "exists"
    /\ running = Monitor
    /\ IF Exists(TempFiles[mk])
       THEN /\ mon' = "unlink"
            /\ UNCHANGED <<mk, running>>
       ELSE MonitorNext
    /\ UNCHANGED <<clockVars, speechVars, files, pc, tool, trigger_id, wake, waitVars, result,
                   last_attachments, shutdown_requested, at_cleanup, emit, backup_failed,
                   hostVars, histVars>>

\* Path(temp_file).unlink(): FileNotFoundError leaves the for loop through the
\* except branch that encloses it.
MonitorUnlink ==
    /\ mon = "unlink"
    /\ running = Monitor
    /\ IF Exists(TempFiles[mk])
       THEN /\ files' = Unlink(TempFiles[mk])
            /\ MonitorNext
       ELSE /\ mon' = "done"
            /\ running' = None
            /\ UNCHANGED <<files, mk>>
    /\ UNCHANGED <<clockVars, speechVars, pc, tool, trigger_id, wake, waitVars, result,
                   last_attachments, shutdown_requested, at_cleanup, emit, backup_failed,
                   hostVars, histVars>>

\* run(): asyncio.wait returned because shutdown_task is done; the pending
\* server task, and every handler in it, is cancelled at its await.
RunCancels ==
    /\ mon = "done"
    /\ running = None
    /\ mon' = "stopped"
    /\ pc' = [i \in Inv |-> IF pc[i] = "done" THEN "done" ELSE "cancelled"]
    /\ UNCHANGED <<clockVars, speechVars, files, running, tool, trigger_id, wake, waitVars,
                   result, last_attachments, shutdown_requested, mk, at_cleanup, emit,
                   backup_failed, hostVars, histVars>>

\* ------------------------------------------------------------------ host
\* The host consumes a trigger document: it reads it and deletes it.
HostConsume(n) ==
    /\ n \in env.consume
    /\ Exists(n)
    /\ files' = Unlink(n)
    /\ host_read' = host_read \cup (IF Parseable(files[n]) THEN {files[n].req} ELSE {})
    /\ UNCHANGED <<clockVars, speechVars, running, pc, tool, trigger_id, wake, waitVars, result,
                   last_attachments, shutdown_requested, monVars, emit, backup_failed,
                   host_acked, host_answered, host_retracted, histVars>>

\* The bodies the host leaves under an acknowledgement name.
AckDocs == {AckDoc(TRUE), AckDoc(FALSE), AckDocNoFlag, RawDoc(<<"{">>, 0)}

\* The host acknowledges a request it has read.
HostAck(i, d) ==
    /\ i \in host_read
    /\ host_acked[i] < env.acks
    /\ host_acked' = [host_acked EXCEPT ![i] = host_acked[i] + 1]
    /\ files' = Write(AckFile(trigger_id[i]), d)
    /\ UNCHANGED <<clockVars, speechVars, running, pc, tool, trigger_id, wake, waitVars, result,
                   last_attachments, shutdown_requested, monVars, emit, backup_failed,
                   host_read, host_answered, host_retracted, histVars>>

\* The id of a request of an earlier run.
StaleId == TriggerId("review", 0 - 1)

ThreeAttachments ==
    <<Att("image/png", "f1"), Att("text/plain", "f2"), Att("image/jpeg", "f3")>>

\* Every kind of response document, written in answer to request i.
AllDocs(i) ==
    {JsonResponse({"user_input"}, <<" ", "y", " ">>, <<>>, <<>>, tid, <<>>, i)
        : tid \in {NoId, trigger_id[i]}}
    \cup {JsonResponse({"user_input", "response"}, <<>>, <<"n">>, <<>>, tid, <<>>, i)
        : tid \in {NoId, trigger_id[i]}}
    \cup {JsonResponse({"response"}, <<>>, <<"n">>, <<>>, tid, <<>>, i)
        : tid \in {NoId, trigger_id[i]}}
    \cup {JsonResponse({"message"}, <<>>, <<>>, <<"y">>, tid, ThreeAttachments, i)
        : tid \in {NoId, trigger_id[i]}}
    \cup {JsonResponse({}, <<>>, <<>>, <<>>, tid, <<Att("image/png", "f1")>>, i)
        : tid \in {NoId, trigger_id[i]}}
    \cup {JsonResponse({}, <<>>, <<>>, <<>>, tid, <<Att("text/plain", "f2")>>, i)
        : tid \in {NoId, trigger_id[i]}}
    \cup {JsonResponse({"response", "message"}, <<>>, <<>>, <<"y">>, NoId, <<>>, i),
          JsonResponse({"response", "message"}, <<>>, <<"n">>, <<"y">>, NoId, <<>>, i),
          JsonResponse({"user_input", "response", "message"}, <<"y">>, <<"n">>, <<"n">>,
                       NoId, <<>>, i)}
    \cup {RawDoc(<<"y", " ">>, i), RawDoc(<<" ">>, i), RawDoc(<<"{", "y">>, i),
          JsonResponse({"user_input"}, <<"n">>, <<>>, <<>>, StaleId, <<>>, i)}

\* Two of them: one that declares the id, one that declares none.
SomeDocs(i) ==
    {JsonResponse({"user_input"}, <<" ", "y", " ">>, <<>>, <<>>, trigger_id[i], <<>>, i),
     JsonResponse({"message"}, <<>>, <<>>, <<"y">>, NoId, ThreeAttachments, i)}

\* A good document, and one of each kind the waiter does not return: another
\* request's id, a body that does not parse, an empty text.
MixedDocs(i) ==
    {JsonResponse({"user_input"}, <<"y">>, <<>>, <<>>, trigger_id[i], <<>>, i),
     JsonResponse({"user_input"}, <<"n">>, <<>>, <<>>, StaleId, <<>>, i),
     RawDoc(<<"{", "y">>, i),
     RawDoc(<<" ">>, i)}

\* The response documents the host may write in answer to request i.
HostDocs(i) ==
    CASE env.docs = "all" -> AllDocs(i)
      [] env.docs = "some" -> SomeDocs(i)
      [] env.docs = "plain" -> {RawDoc(<<"n">>, i)}
      [] env.docs = "mixed" -> MixedDocs(i)
      [] env.docs = "confirm" ->
            IF tool[i] = "shutdown_mcp" THEN {RawDoc(<<"y", " ">>, i)} ELSE {}
      [] OTHER -> {}

\* The names the host may answer request i under: the patterns env.patterns
\* of its own trigger_id, or of any request made so far.
HostNames(i) ==
    {ResponsePatterns(trigger_id[j])[p] :
        p \in env.patterns,
        j \in IF env.own THEN {i} ELSE {x \in Inv : pc[x] # "idle"}}

\* The host answers a request it has read.
HostRespond(i, n, d) ==
    /\ i \in host_read
    /\ n \in HostNames(i)
    /\ host_answered[i] < env.answers
    /\ host_answered' = [host_answered EXCEPT ![i] = host_answered[i] + 1]
    /\ files' = Write(n, d)
    /\ UNCHANGED <<clockVars, speechVars, running, pc, tool, trigger_id, wake, waitVars, result,
                   last_attachments, shutdown_requested, monVars, emit, backup_failed,
                   host_read, host_acked, host_retracted, histVars>>

\* The host takes back an acknowledgement or response document it wrote.
HostRetract(n) ==
    /\ env.retract
    /\ Exists(n)
    /\ \E i \in Inv : n \in {AckFile(trigger_id[i])} \cup HostNames(i)
    /\ files' = Unlink(n)
    /\ host_retracted' = host_retracted \cup {n}
    /\ UNCHANGED <<clockVars, speechVars, running, pc, tool, trigger_id, wake, waitVars, result,
                   last_attachments, shutdown_requested, monVars, emit, backup_failed,
                   host_read, host_acked, host_answered, histVars>>

\* ------------------------------------------------------------------ speech
\* Everything but the store and the speech thread's own state: the thread
\* monitor_speech_triggers reads shutdown_requested and touches nothing else.
loopVars == <<clockVars, running, pc, tool, trigger_id, wake, waitVars, result,
              last_attachments, shutdown_requested, monVars, emit, backup_failed,
              hostVars, histVars>>

RECURSIVE Ascending(_)
Ascending(S) ==
    IF S = {} THEN <<>>
    ELSE LET m == CHOOSE x \in S : \A y \in S : x <= y
         IN <<m>> \o Ascending(S \ {m})

\* glob.glob(speech_pattern), as the slots of the names found
Glob == Ascending({x \in SpeechSlots : Exists(SpeechTrigger(x))})

\* The for loop moves to the next trigger_file, or the pass is over and the
\* thread sleeps 0.5 s before its next loop test.
SpeechNext ==
    /\ sq' = Tail(sq)
    /\ sp' = IF Tail(sq) = <<>> THEN "loop" ELSE "open"
    /\ sdata' = Absent

\* while not self.shutdown_requested: speech_triggers = glob.glob(...)
SpeechLoop ==
    /\ sp = "loop"
    /\ env.speech > 0
    /\ IF shutdown_requested
       THEN sp' = "exited" /\ UNCHANGED sq
       ELSE sq' = Glob /\ sp' = (IF Glob = <<>> THEN "loop" ELSE "open")
    /\ UNCHANGED <<loopVars, files, sdata, host_spoke, raised>>

\* json.load of the trigger file and the test of its tool tag: a file that is
\* gone or does not parse raises into the except branch, a document with
\* another tag is passed over.
SpeechOpen ==
    /\ sp = "open"
    /\ LET d == Read(SpeechTrigger(Head(sq)))
       IN IF ~Parseable(d)
          THEN /\ sp' = "unlink"
               /\ raised' = raised \cup {Head(sq)}
               /\ UNCHANGED <<sq, sdata>>
          ELSE IF d.data.tool = "speech_to_text"
          THEN sp' = "process" /\ sdata' = d /\ UNCHANGED <<sq, raised>>
          ELSE SpeechNext /\ UNCHANGED raised
    /\ UNCHANGED <<loopVars, files, host_spoke>>

\* The error texts of _process_speech_request.
NotAvailable == "Whisper model not available"
NotFound == "Audio file not found"
TranscribeError == "str(e)"

\* _write_speech_response(trigger_id, transcription, error)
WriteSpeechResponse(id, transcription, error) ==
    Write(SpeechResponseFile(id), SpeechResponse(id, transcription, error))

WhenUnavailable_Silent(id) == files

\* What _process_speech_request does when self._whisper_model is None.
WhenUnavailable(id) == WriteSpeechResponse(id, <<>>, NotAvailable)

\* _process_speech_request up to the transcription: the request is invalid
\* (nothing is written), the model is missing, or the audio file is missing.
SpeechProcess ==
    /\ sp = "process"
    /\ IF ~({"audio_file", "trigger_id"} \subseteq sdata.has)
       THEN sp' = "unlink" /\ UNCHANGED files
       ELSE IF ~env.whisper
       THEN sp' = "unlink" /\ files' = WhenUnavailable(sdata.data.trigger_id)
       ELSE IF ~Exists(sdata.data.audio_file)
       THEN /\ sp' = "unlink"
            /\ files' = WriteSpeechResponse(sdata.data.trigger_id, <<>>, NotFound)
       ELSE sp' = "transcribe" /\ UNCHANGED files
    /\ UNCHANGED <<loopVars, sq, sdata, host_spoke, raised>>

\* How self._whisper_model.transcribe can end.
TranscribeOutcomes == {"ok", "raise"}

\* transcribe and the response it leads to: the transcription, or the text of
\* the exception from the except branch at lines 1244-1247.
SpeechTranscribe ==
    /\ sp = "transcribe"
    /\ \E outcome \in TranscribeOutcomes :
          IF outcome = "ok" /\ Exists(sdata.data.audio_file)
          THEN /\ files' = WriteSpeechResponse(sdata.data.trigger_id,
                                               Strip(files[sdata.data.audio_file].body),
                                               Null)
               /\ sp' = "audio_unlink"
          ELSE /\ files' = WriteSpeechResponse(sdata.data.trigger_id, <<>>,
                                               TranscribeError)
               /\ sp' = "unlink"
    /\ UNCHANGED <<loopVars, sq, sdata, host_spoke, raised>>

\* Path(audio_file).unlink() (a failure is a warning)
SpeechAudioUnlink ==
    /\ sp = "audio_unlink"
    /\ files' = Unlink(sdata.data.audio_file)
    /\ sp' = "unlink"
    /\ UNCHANGED <<loopVars, sq, sdata, host_spoke, raised>>

\* Path(trigger_file).unlink(), at line 1179 or in the except branch at 1187.
SpeechUnlink ==
    /\ sp = "unlink"
    /\ files' = Unlink(SpeechTrigger(Head(sq)))
    /\ SpeechNext
    /\ UNCHANGED <<loopVars, host_spoke, raised>>

\* The request documents the host may leave under a speech trigger name.
SpeechKind(kind, s) ==
    CASE kind = "audio" ->
            SpeechRequest("speech_to_text", {"tool", "audio_file", "trigger_id"}, s)
      [] kind = "no_audio" ->
            SpeechRequest("speech_to_text", {"tool", "audio_file", "trigger_id"}, s)
      [] kind = "no_field" -> SpeechRequest("speech_to_text", {"tool", "trigger_id"}, s)
      [] kind = "other_tool" ->
            SpeechRequest("review_gate_chat", {"tool", "trigger_id"}, s)
      [] OTHER -> RawDoc(<<"{">>, 0)

\* The host records audio and asks for its transcription: it writes the audio
\* payload (kind "audio") and then the request document.
HostSpeech(s, kind) ==
    /\ s <= env.speech
    /\ kind \in env.kinds
    /\ s \notin host_spoke
    /\ \A x \in SpeechSlots : x < s => x \in host_spoke
    /\ host_spoke' = host_spoke \cup {s}
    /\ files' = [x \in DOMAIN files \cup {SpeechTrigger(s)}
                       \cup (IF kind = "audio" THEN {AudioFile(s)} ELSE {}) |->
                    IF x = SpeechTrigger(s) THEN SpeechKind(kind, s)
                    ELSE IF x = AudioFile(s) /\ kind = "audio" THEN AudioDoc
                    ELSE files[x]]
    /\ UNCHANGED <<loopVars, sp, sq, sdata, raised>>

\* ------------------------------------------------------------------ time
\* A coroutine whose sleep is over, or which holds the event loop, runs before
\* the clock moves by a whole check_interval.
Asleep(i) ==
    pc[i] \in {"emit_sleep", "emit_raised", "emit_settle", "ack_sleep", "resp_sleep",
               "unknown_sleep", "error_sleep"}

Tick ==
    /\ now < env.until
    /\ pc[1] # "idle"
    /\ running = None
    /\ \A i \in Inv : Asleep(i) => wake[i] > now
    /\ now' = now + 1
    /\ UNCHANGED <<env, speechVars, msNow, files, running, pc, tool, trigger_id, wake, waitVars,
                   result, last_attachments, shutdown_requested, monVars, emit, backup_failed,
                   hostVars, histVars>>

Tools == {"review_gate_chat", "shutdown_mcp"} \cup Unrouted

Next ==
    \/ \E i \in Inv, t \in Tools : Invoke(i, t)
    \/ \E i \in Inv, t \in Tools : CallUnknown(i, t)
    \/ \E i \in Inv : UnknownRaises(i)
    \/ \E i \in Inv : CallToolFails(i)
    \/ \E i \in Inv : EmitWrite(i)
    \/ \E i \in Inv : EmitRaised(i)
    \/ \E i \in Inv : EmitExists(i)
    \/ \E i \in Inv : EmitStat(i)
    \/ \E i \in Inv : EmitBackup(i)
    \/ \E i \in Inv : EmitSettle(i)
    \/ \E i \in Inv : AckLoop(i)
    \/ \E i \in Inv : AckRead(i)
    \/ \E i \in Inv : AckUnlink(i)
    \/ \E i \in Inv : AckWake(i)
    \/ \E i \in Inv : RespLoop(i)
    \/ \E i \in Inv : RespExists(i)
    \/ \E i \in Inv : RespRead(i)
    \/ \E i \in Inv : RespUnlink(i)
    \/ \E i \in Inv : RespWake(i)
    \/ MonitorWake
    \/ MonitorExists
    \/ MonitorUnlink
    \/ RunCancels
    \/ \E n \in TriggerNames : HostConsume(n)
    \/ \E i \in Inv, d \in AckDocs : HostAck(i, d)
    \/ \E i \in Inv : \E n \in HostNames(i), d \in HostDocs(i) : HostRespond(i, n, d)
    \/ \E n \in DOMAIN files : HostRetract(n)
    \/ SpeechLoop
    \/ SpeechOpen
    \/ SpeechProcess
    \/ SpeechTranscribe
    \/ SpeechAudioUnlink
    \/ SpeechUnlink
    \/ \E x \in SpeechSlots, kind \in {"audio", "no_audio", "no_field", "other_tool",
                                        "truncated"} : HostSpeech(x, kind)
    \/ Tick

Spec == Init /\ [][Next]_vars

\* The steps a coroutine takes while it holds the event loop: it runs on to
\* its next await.
Coroutine ==
    \E i \in Inv :
        \/ EmitExists(i) \/ EmitStat(i) \/ EmitBackup(i)
        \/ AckLoop(i) \/ AckRead(i) \/ AckUnlink(i)
        \/ RespLoop(i) \/ RespExists(i) \/ RespRead(i) \/ RespUnlink(i)

\* The steps of the event loop that wait for no timer: a coroutine goes on to
\* its next await, the monitor task is resumed when the loop is free and does
\* its cleanup, run() goes on after asyncio.wait once the monitor task is done.
EventLoop == Coroutine \/ MonitorWake \/ MonitorExists \/ MonitorUnlink \/ RunCancels

\* The event loop does not stand still while one of its tasks is ready.
FairSpec == Spec /\ WF_vars(EventLoop)

\* ------------------------------------------------------------------ configure_mcp
\* configure_mcp.py <mcp_file> <review_gate_dir>: main() reads the MCP
\* configuration of the editor, if there is one, and writes it back with the
\* review-gate-v2 server in it.  A JSON object keeps the order of its keys, so
\* a server map is the sequence of its <<name, entry>> items.
MaxServers == 3
ServerNames == {"review-gate-v2", "github", "memory"}
Dirs == {"C:/review-gate", "D:/tools/rg"}
McpFile == <<"mcp.json">>

\* os.path.join(review_gate_dir, ...)
PathJoin(dir, parts) == <<dir>> \o parts

\* existing_servers['review-gate-v2'] = {...}: the entry main() builds.
Entry(dir) ==
    [command |-> PathJoin(dir, <<"venv", "Scripts", "python.exe">>),
     args |-> << PathJoin(dir, <<"review_gate_v2_mcp.py">>) >>,
     env |-> [PYTHONPATH |-> dir, PYTHONUNBUFFERED |-> "1",
              REVIEW_GATE_MODE |-> "cursor_integration"]]

\* The entry of a server somebody else configured.
OtherEntry(cmd) == [command |-> <<cmd>>, args |-> <<"-y">>, env |-> [PATH |-> cmd]]

ServerEntries == {OtherEntry("npx"), OtherEntry("uvx")} \cup {Entry(d) : d \in Dirs}

\* The server maps of at most MaxServers items, every name at most once.
ServerMaps ==
    UNION {{s \in [1 .. n -> ServerNames \X ServerEntries] :
               \A a, b \in 1 .. n : s[a][1] = s[b][1] => a = b} : n \in 0 .. MaxServers}

\* The JSON values found under the mcpServers key: an object, null, or a list.
JsonObject(items) == [type |-> "object", items |-> items]
JsonNull == [type |-> "null", items |-> <<>>]
JsonList == [type |-> "list", items |-> <<>>]

\* A file whose JSON is an object: has is the set of its top-level keys.
McpConfig(has, servers) ==
    [fmt |-> "json", kind |-> "object", has |-> has, mcpServers |-> servers]

\* A file whose JSON is a list, one that is no JSON, one open() cannot read.
ListConfig == [fmt |-> "json", kind |-> "list", has |-> {}, mcpServers |-> JsonNull]
InvalidConfig == [fmt |-> "raw", kind |-> "", has |-> {}, mcpServers |-> JsonNull]
UnreadableConfig == [fmt |-> "denied", kind |-> "", has |-> {}, mcpServers |-> JsonNull]

\* What mcp_file is before the run.
ExistingConfigs ==
    {Absent, ListConfig, InvalidConfig, UnreadableConfig}
        \cup {McpConfig(has, JsonNull) : has \in SUBSET {"inputs"}}
        \cup {McpConfig(has \cup {"mcpServers"}, v) :
                 has \in SUBSET {"inputs"},
                 v \in {JsonNull, JsonList} \cup {JsonObject(s) : s \in ServerMaps}}

\* existing_servers.pop(key, None)
RECURSIVE Pop(_, _)
Pop(items, key) ==
    IF items = <<>> THEN <<>>
    ELSE (IF Head(items)[1] = key THEN <<>> ELSE <<Head(items)>>) \o Pop(Tail(items), key)

\* existing_servers[key] = value: a key it has keeps its place, a new one is last.
SetItem(items, key, value) ==
    IF \E j \in 1 .. Len(items) : items[j][1] = key
    THEN [j \in 1 .. Len(items) |-> IF items[j][1] = key THEN <<key, value>> ELSE items[j]]
    ELSE Append(items, <<key, value>>)

ExistingServers_Fresh(doc) == <<>>

\* existing_servers after the if/try block: {} when there is no file, when
\* open() or json.load() raises, when config is no dict (config.get raises),
\* when it has no mcpServers key (the default), when mcpServers is no dict
\* (its pop raises); otherwise the map of the file without review-gate-v2.
ExistingServers(doc) ==
    IF doc = Absent THEN <<>>
    ELSE IF doc.fmt # "json" THEN <<>>
    ELSE IF doc.kind # "object" THEN <<>>
    ELSE IF "mcpServers" \notin doc.has THEN <<>>
    ELSE IF doc.mcpServers.type # "object" THEN <<>>
    ELSE Pop(doc.mcpServers.items, "review-gate-v2")

\* config = {'mcpServers': existing_servers} as json.dump writes it.
Configured(doc, dir) ==
    McpConfig({"mcpServers"},
              JsonObject(SetItem(ExistingServers(doc), "review-gate-v2", Entry(dir))))

\* One run of main() with the arguments env.review_gate_dir and mcp_file.
ConfigureMcp ==
    /\ env.name = "configure_mcp"
    /\ files' = Write(McpFile, Configured(Read(McpFile), env.review_gate_dir))
    /\ UNCHANGED <<clockVars, running, pc, tool, trigger_id, wake, waitVars, result,
                   last_attachments, shutdown_requested, monVars, emit, backup_failed,
                   hostVars, speechVars, histVars>>

\* The runs of configure_mcp.py: what mcp_file is and the directory given.
ConfigRuns ==
    {[name |-> "configure_mcp", mcp_file |-> c, review_gate_dir |-> d] :
        c \in ExistingConfigs, d \in Dirs}

ConfigInit ==
    /\ env \in ConfigRuns
    /\ files = IF env.mcp_file = Absent THEN NoFiles ELSE [x \in {McpFile} |-> env.mcp_file]
    /\ ServerIdle

ConfigNext == ConfigureMcp

ConfigSpec == ConfigInit /\ [][ConfigNext]_vars

\* ------------------------------------------------------------------ claims
\* The steps of invocation i inside _wait_for_user_input and inside
\* _wait_for_extension_acknowledgement.
RespPcs == {"resp_loop", "resp_exists", "resp_read", "resp_unlink", "resp_sleep"}
AckPcs == {"ack_loop", "ack_read", "ack_unlink", "ack_sleep"}

\* The text the host placed in a response document, as it was written.
PlacedText(d) ==
    IF d.fmt = "raw" THEN d.body
    ELSE IF "user_input" \in d.has THEN d.user_input
    ELSE IF "response" \in d.has THEN d.response
    ELSE IF "message" \in d.has THEN d.message
    ELSE <<>>

\* A text without its leading and trailing whitespace.
Trimmed(t) ==
    LET inked == {x \in 1 .. Len(t) : t[x] # " "}
    IN IF inked = {} THEN <<>>
       ELSE SubSeq(t, CHOOSE a \in inked : \A x \in inked : a <= x,
                      CHOOSE b \in inked : \A x \in inked : x <= b)

\* The names of the image attachments of a document, in order.
ImageNames(d) ==
    IF d.fmt = "raw" THEN <<>>
    ELSE LET imgs == SelectSeq(d.attachments,
                         LAMBDA a : a.mimeType \in {"image/png", "image/jpeg"})
         IN [x \in 1 .. Len(imgs) |-> imgs[x].fileName]

\* "\n\nAttached: Image: a, Image: b" for the image names given.
AttachedSuffix(names) ==
    IF names = <<>> THEN <<>>
    ELSE <<"\n\nAttached: ">> \o
         [x \in 1 .. 3 * Len(names) - 1 |->
             CASE x % 3 = 1 -> "Image: "
               [] x % 3 = 2 -> names[(x + 1) \div 3]
               [] OTHER -> ", "]

\* What the waiter returns for a document it takes.
ReturnedFor(d) == Trimmed(PlacedText(d)) \o AttachedSuffix(ImageNames(d))

\* A response document the waiter for tid is meant to take: plain text, or a
\* JSON object that declares tid or no id.
MeantFor(d, tid) ==
    \/ d.fmt = "raw" /\ (Trimmed(d.body) = <<>> \/ Head(Trimmed(d.body)) # "{")
    \/ d.fmt = "json" /\ d.trigger_id \in {NoId, tid}

\* Invocation i takes a step of its own from the position at: its position
\* changes, and not because the server cancelled it.
Steps(i, at) == pc[i] = at /\ pc'[i] \notin {at, "cancelled"}

\* The handler's result carries the text the waiter returned.
Carries(r, t, text) ==
    IF t = "review_gate_chat" THEN r.text = <<"User Response: ">> \o text
    ELSE r.text \in {<<"shutdown_mcp CONFIRMED: ">> \o text,
                     <<"shutdown_mcp CANCELLED: ">> \o text}

DeclaresOther(d, tid) ==
    d.fmt = "json" /\ d.trigger_id # NoId /\ d.trigger_id # tid

\* C2 as stated: a structured response document that declares a non-empty
\* trigger_id other than the one a waiter awaits is never deleted by a step of
\* that waiter, under any of its four names, and is never the document that
\* waiter takes its text from.
C2_MismatchNeverTaken ==
    [][\A i \in Inv :
          pc[i] \in RespPcs /\ pc'[i] # pc[i]
          => /\ \A x \in 1 .. 4 :
                   LET n == ResponsePatterns(trigger_id[i])[x]
                   IN Exists(n) /\ DeclaresOther(files[n], trigger_id[i])
                      => n \in DOMAIN files'
             /\ pc'[i] = "resp_unlink" => ~DeclaresOther(data'[i], trigger_id[i])
         ]_vars

\* C3: a structured response document that declares no trigger_id and sits
\* under an unscoped name is taken by whichever waiter reads it, whatever
\* request the host wrote it for: the waiter that reads it goes on to unlink
\* it, and when its text is not empty returns it and leaves the name absent.
C3_IdlessTakenByFirstPoller ==
    [][\A i \in Inv :
          /\ Steps(i, "resp_read") /\ k[i] \in {2, 4} /\ Exists(Pattern(i))
                /\ files[Pattern(i)].fmt = "json"
                /\ files[Pattern(i)].trigger_id = NoId
             => pc'[i] = "resp_unlink" /\ data'[i] = files[Pattern(i)]
          /\ Steps(i, "resp_unlink") /\ k[i] \in {2, 4}
                /\ data[i].fmt = "json" /\ data[i].trigger_id = NoId
                /\ ReturnedFor(data[i]) # <<>>
             => /\ pc'[i] = "done"
                /\ got'[i] = data[i].for
                /\ Pattern(i) \notin DOMAIN files'
         ]_vars

\* With A and B pending, the host's only answer to A was returned to B, and A
\* timed out.
C3_Witness ==
    \E a, b \in Inv :
        /\ a # b
        /\ got[b] = a
        /\ pc[b] = "done"
        /\ result[b].text = <<"User Response: ", "y", "\n\nAttached: ",
                              "Image: ", "f1", ", ", "Image: ", "f3">>
        /\ host_answered[a] = MaxAnswers
        /\ pc[a] = "done"
        /\ result[a] = ChatTimeout

\* C4 as stated: an emission whose primary write_text succeeded never returns
\* failure because the trigger document is absent, the host having consumed it.
C4_ConsumedIsSuccess ==
    \A i \in Inv :
        primary[i] = "ok" /\ TriggerFile \in env.consume => emit[i] # "absent"

\* C5: the emission returns failure only from a state where the primary write
\* raised, or the trigger document is absent at the existence check, or its
\* size is zero; and an emission whose backup writes failed is never a failed
\* emission.
C5_FailureOnlyIfPrimaryUnverified ==
    [][\A i \in Inv :
          /\ pc[i] # "done" /\ pc'[i] = "done"
                /\ result'[i] = EmitFailureResult(tool[i])
             => \/ primary[i] = "raised"
                \/ pc[i] = "emit_exists" /\ ~Exists(TriggerFile)
                \/ pc[i] = "emit_stat" /\ Exists(TriggerFile)
                      /\ Size(files[TriggerFile]) = 0
          /\ backup_failed'[i]
             => /\ result'[i] # EmitFailureResult(tool[i])
                /\ emit'[i] \in {"verified", "ok"}
         ]_vars

\* A backup write failed and the emission returned success.
C5_Witness ==
    \E i \in Inv : backup_failed[i] /\ emit[i] = "ok" /\ pc[i] \in AckPcs

\* The waiter's return of None, seen as the handler's timeout result.
ReturnsNone(i) ==
    /\ pc[i] \in RespPcs
    /\ pc'[i] = "done"
    /\ result'[i] \in {ChatTimeout, ShutdownTimeout}

\* C6: as long as the host has written no response document, the only return
\* of _wait_for_user_input is None; and it returns None only when the time
\* elapsed since the call started is at least the timeout it was given.
C6_NoneOnlyAtTimeout ==
    [][\A i \in Inv :
          /\ pc[i] \in RespPcs /\ pc'[i] = "done"
                /\ (\A j \in Inv : host_answered[j] = 0)
             => ReturnsNone(i)
          /\ ReturnsNone(i) => now - start_time[i] >= ResponseTimeout(tool[i])
         ]_vars

\* A chat whose host never answered has returned the timeout text, at the
\* response timeout after its emission settled and its acknowledgement wait
\* ran out.
C6_Witness ==
    \E i \in Inv :
        /\ pc[i] = "done"
        /\ result[i] = ChatTimeout
        /\ emit[i] = "ok"
        /\ \A j \in Inv : host_answered[j] = 0
        /\ now >= AckTimeout + RespTimeout

\* C7 as stated: whatever the body of the acknowledgement document the waiter
\* reads, the poll that reads it goes on to unlink it, and the name is absent
\* after that unlink.
C7_AnyBodyDeleted ==
    [][\A i \in Inv :
          /\ Steps(i, "ack_read") /\ Exists(AckFile(trigger_id[i]))
             => pc'[i] = "ack_unlink"
          /\ Steps(i, "ack_unlink") => AckFile(trigger_id[i]) \notin DOMAIN files'
         ]_vars

\* C7, amended: whenever the waiter reads an acknowledgement document that is
\* a JSON object (flag true, flag false or no flag), the same poll unlinks it
\* before it returns or sleeps, so the name is absent until the host writes it
\* again.
C7_JsonAckDeleted ==
    [][\A i \in Inv :
          /\ Steps(i, "ack_read") /\ Exists(AckFile(trigger_id[i]))
                /\ files[AckFile(trigger_id[i])].fmt = "json"
             => pc'[i] = "ack_unlink" /\ data'[i] = files[AckFile(trigger_id[i])]
          /\ Steps(i, "ack_unlink") => AckFile(trigger_id[i]) \notin DOMAIN files'
         ]_vars

\* The waiter read an acknowledgement with the flag false, unlinked it and
\* sleeps until its next poll.
C7_Witness ==
    \E i \in Inv :
        /\ pc[i] = "ack_sleep"
        /\ data[i] = AckDoc(FALSE)
        /\ ~Exists(AckFile(trigger_id[i]))

\* C8: every step by which a review_gate_chat invocation leaves
\* _wait_for_extension_acknowledgement enters _wait_for_user_input, with no
\* result produced, whether the acknowledgement was received or the wait timed
\* out; a chat whose emission succeeded never ends with the error result.
C8_ResponseWaitFollowsAck ==
    [][\A i \in Inv :
          /\ pc[i] \in AckPcs /\ pc'[i] \notin AckPcs \cup {"cancelled"}
             => /\ pc'[i] = "resp_loop"
                /\ result'[i] = NoResult
                /\ start_time'[i] = now
          /\ emit'[i] = "ok" => result'[i] # ChatError
         ]_vars

\* A chat whose acknowledgement wait timed out returned the user's answer.
C8_Witness ==
    \E i \in Inv :
        /\ pc[i] = "done"
        /\ tool[i] = "review_gate_chat"
        /\ ~ack_received[i]
        /\ host_acked[i] = 0
        /\ result[i].text = <<"User Response: ", "n">>

\* C9 as stated, in the form of its safety core: a request whose emission
\* returned success with every write done, and which the host has not read
\* yet, is still there to be read, in the primary trigger document or in one
\* of the three backups.
C9_EmittedStaysReadable ==
    \A i \in Inv :
        /\ emit[i] = "ok" /\ primary[i] = "ok" /\ ~backup_failed[i]
        /\ i \notin host_read
        /\ mon = "wait"
        => \E n \in TriggerNames :
              Exists(n) /\ files[n].fmt = "json" /\ files[n].req = i

\* C10 as stated: when _monitor_shutdown completes its cleanup, none of the
\* trigger documents that existed when the cleanup started remains.
C10_CleanupRemovesAll ==
    [][(mon \in {"exists", "unlink"} /\ mon' = "done")
       => (\A n \in at_cleanup : n \notin DOMAIN files')]_vars

\* The result document of request id says that it failed with the error given.
FailedResult(F, id, error) ==
    /\ SpeechResponseFile(id) \in DOMAIN F
    /\ F[SpeechResponseFile(id)].trigger_id = id
    /\ F[SpeechResponseFile(id)].success = FALSE
    /\ F[SpeechResponseFile(id)].error = error
    /\ error # Null

C12_QueuedRequestAnswered ==
    (sp = "exited" /\ ~env.whisper)
    => \A x \in queued : FailedResult(files, x, NotAvailable)

\* The attachments array of a response document; a plain-text one has none.
ListedIn(d) == IF d.fmt = "json" THEN d.attachments ELSE <<>>

\* C13: whenever the waiter takes a response document, the single slot
\* _last_attachments becomes exactly the attachments array of that document,
\* in order, whatever it held before (empty for a structured document without
\* attachments and for plain text); and when _wait_for_user_input returns the
\* text of a document, the slot is the attachments array of that document.
C13_SlotHoldsConsumedAttachments ==
    [][\A i \in Inv :
          /\ Steps(i, "resp_read") /\ pc'[i] = "resp_unlink"
             => last_attachments' = ListedIn(data'[i])
          /\ Steps(i, "resp_unlink") /\ pc'[i] = "done"
             => last_attachments' = ListedIn(data[i])
         ]_vars

\* One chat returned with the three attachments of its response in the slot
\* (its result carries the two images among them); then another chat consumed
\* a response without attachments, and the slot is empty.
C13_Witness ==
    \E a, b \in Inv :
        /\ a # b
        /\ pc[a] = "done"
        /\ result[a].images = ImageItems(ThreeAttachments)
        /\ Len(result[a].images) = 2
        /\ pc[b] = "done"
        /\ result[b].text = <<"User Response: ", "y">>
        /\ last_attachments = <<>>

\* A body that starts with the structural marker and is not JSON.
Malformed(d) ==
    d.fmt = "raw" /\ Trimmed(d.body) # <<>> /\ Head(Trimmed(d.body)) = "{"

\* C14: whenever the waiter reads a response document whose body starts with
\* "{" but is not JSON, it returns nothing and raises nothing, leaves the
\* store as it is, and goes on with the next candidate name or the next poll;
\* and if that document is all the host ever wrote, the waiter's only return
\* is None, at the timeout.
C14_MalformedSkipped ==
    [][\A i \in Inv :
          /\ Steps(i, "resp_read") /\ Exists(Pattern(i)) /\ Malformed(files[Pattern(i)])
             => /\ files' = files
                /\ pc'[i] \in {"resp_exists", "resp_sleep"}
                /\ result'[i] = NoResult
          /\ (/\ pc[i] \in RespPcs /\ pc'[i] = "done"
              /\ \A j \in Inv : host_answered[j] = IF j = i THEN 1 ELSE 0
              /\ \E x \in 1 .. 4 :
                    /\ Exists(ResponsePatterns(trigger_id[i])[x])
                    /\ Malformed(files[ResponsePatterns(trigger_id[i])[x]]))
             => /\ ReturnsNone(i)
                /\ now - start_time[i] >= ResponseTimeout(tool[i])
         ]_vars

\* A chat timed out, and the truncated document the host wrote under its
\* second candidate name is still there.
C14_Witness ==
    \E i \in Inv :
        /\ pc[i] = "done"
        /\ result[i] = ChatTimeout
        /\ host_answered[i] = 1
        /\ Exists(ResponsePatterns(trigger_id[i])[2])
        /\ Malformed(files[ResponsePatterns(trigger_id[i])[2]])

\* Invocation i is in flight: entered and not yet ended.
InFlight(i) == pc[i] \notin {"idle", "done", "cancelled"}

\* C15 as stated: any two invocations in flight at the same time have
\* different trigger ids, so that their acknowledgement names and their scoped
\* response names differ.
C15_ConcurrentIdsDistinct ==
    \A i, j \in Inv :
        (i # j /\ InFlight(i) /\ InFlight(j))
        => /\ trigger_id[i] # trigger_id[j]
           /\ AckFile(trigger_id[i]) # AckFile(trigger_id[j])
           /\ ResponsePatterns(trigger_id[i])[1] # ResponsePatterns(trigger_id[j])[1]

\* The tool names that reach a handler or the else branch through call_tool.
Dispatched == Chat \cup Unrouted

\* A content list made of one text item that starts with the prefix given.
SingleText(r, prefix) == r.text # <<>> /\ Head(r.text) = prefix /\ r.images = <<>>

\* C16: every step that ends an invocation made through call_tool returns a
\* content list with a text item: a single text starting with "ERROR:" when
\* the emission failed, a single text starting with "TIMEOUT:" when the
\* response wait ran out, and a single text starting with "ERROR:" for a tool
\* name call_tool does not route.  (The only other way an invocation ends is
\* the cancellation of the server task once the shutdown monitor completes.)
C16_DispatcherReturnsContent ==
    [][\A i \in Inv :
          (tool'[i] \in Dispatched /\ pc[i] # "done" /\ pc'[i] = "done")
          => /\ result'[i].text # <<>>
             /\ pc[i] \in {"emit_raised", "emit_exists", "emit_stat"}
                => SingleText(result'[i], "ERROR: ")
             /\ pc[i] = "resp_loop" => SingleText(result'[i], "TIMEOUT: ")
             /\ tool'[i] \in Unrouted => SingleText(result'[i], "ERROR: ")
             /\ pc[i] = "resp_unlink" => Head(result'[i].text) = "User Response: "
         ]_vars

\* A chat whose emission failed and a call of an unrouted tool have both
\* returned their error text.
C16_Witness ==
    \E i, j \in Inv :
        /\ pc[i] = "done" /\ tool[i] = "review_gate_chat"
        /\ emit[i] \in {"raised", "absent", "zero"}
        /\ result[i] = ChatError
        /\ pc[j] = "done" /\ tool[j] \in Unrouted
        /\ result[j] = ToolError(tool[j])

\* C17 as stated: whenever the text extracted from a document the waiter took
\* is empty, the waiter deletes the document and goes on polling without
\* returning, whatever the attachments array of the document holds.
C17_EmptyTextNeverReturned ==
    [][\A i \in Inv :
          (Steps(i, "resp_unlink") /\ Trimmed(PlacedText(data[i])) = <<>>)
          => /\ Pattern(i) \notin DOMAIN files'
             /\ pc'[i] \in {"resp_exists", "resp_sleep"}
             /\ result'[i] = NoResult
         ]_vars

\* C17: whenever the text extracted from a document the waiter took is empty
\* and the document lists no image attachment, the waiter deletes the document
\* and goes on polling without returning; an attachments array without an
\* image changes nothing.  (With an image attachment the "Attached:" line is
\* appended to the empty text and the waiter returns it.)
C17_EmptyInputDeletedAndPolled ==
    [][\A i \in Inv :
          (Steps(i, "resp_unlink") /\ ReturnedFor(data[i]) = <<>>)
          => /\ Pattern(i) \notin DOMAIN files'
             /\ pc'[i] \in {"resp_exists", "resp_sleep"}
             /\ result'[i] = NoResult
         ]_vars

\* A waiter took a document with no text and one attachment that is not an
\* image, the document is gone, and the waiter polls on.
C17_Witness ==
    \E i \in Inv :
        /\ pc[i] \in {"resp_exists", "resp_sleep"}
        /\ data[i].fmt = "json"
        /\ PlacedText(data[i]) = <<>>
        /\ data[i].attachments = <<Att("text/plain", "f2")>>
        /\ last_attachments = data[i].attachments
        /\ ~Exists(Pattern(i))
        /\ result[i] = NoResult

\* C18: the step that ends the processing of a speech_to_text request (one
\* that names its audio file and its trigger id) leaves the request document
\* absent and the audio payload absent, whatever the outcome was, and the
\* monitor goes on with its loop.
C18_RequestAndAudioRemoved ==
    [][(/\ sp = "unlink" /\ sp' # "unlink"
        /\ sdata # Absent
        /\ {"audio_file", "trigger_id"} \subseteq sdata.has)
       => /\ SpeechTrigger(Head(sq)) \notin DOMAIN files'
          /\ sdata.data.audio_file \notin DOMAIN files'
          /\ sp' \in {"loop", "open"}
      ]_vars

\* The names of signal documents: triggers, acknowledgements, responses, and
\* the requests and results of the speech capability.
SignalDocument(n) ==
    n[1] \in {"review_gate_trigger", "review_gate_ack", "review_gate_response",
              "mcp_response", "review_gate_speech_trigger",
              "review_gate_speech_response"}

\* A step of _monitor_shutdown's cleanup.
CleanupStep == mon \in {"exists", "unlink"} /\ <<mon, mk>>' # <<mon, mk>>

\* C19 as stated: when _monitor_shutdown completes its cleanup, no signal
\* document of any class remains in the temp directory.
C19_NoSignalDocumentRemains ==
    [][(CleanupStep /\ mon' = "done")
       => \A n \in DOMAIN files' : ~SignalDocument(n)]_vars

\* C19: the cleanup of _monitor_shutdown deletes nothing but trigger
\* documents (the primary and the three backups): every step of it leaves each
\* acknowledgement, response and speech document as it was, and writes nothing.
C19_CleanupTouchesOnlyTriggers ==
    [][CleanupStep
       => /\ DOMAIN files' \subseteq DOMAIN files
          /\ \A n \in DOMAIN files : n \notin TriggerNames => Read(n)' = Read(n)
      ]_vars

\* The cleanup is complete while an acknowledgement document and a response
\* document of the confirmed shutdown request are still there.
C19_Witness ==
    /\ mon = "done"
    /\ \E i \in Inv :
          /\ Exists(AckFile(trigger_id[i]))
          /\ \E p \in 1 .. 4 : Exists(ResponsePatterns(trigger_id[i])[p])

\* C20: a document that vanished before the waiter's unlink or read makes no
\* step of the waiter fail, and the unlink of a vanished document changes
\* nothing in the store.  A response waiter that read non-empty text returns
\* that text; a response waiter whose read finds the file gone goes on
\* polling; an acknowledgement waiter that read the document goes on as the
\* flag it read says, and one whose read finds the file gone sleeps and polls
\* again.
C20_VanishedDocumentIsNoError ==
    [][\A i \in Inv :
          /\ (Steps(i, "resp_unlink") /\ ~Exists(Pattern(i)))
             => /\ files' = files
                /\ user_input[i] # <<>>
                   => pc'[i] = "done" /\ Carries(result'[i], tool[i], user_input[i])
          /\ (Steps(i, "resp_read") /\ ~Exists(Pattern(i)))
             => /\ files' = files
                /\ pc'[i] \in {"resp_exists", "resp_sleep"}
                /\ result'[i] = NoResult
          /\ (Steps(i, "ack_unlink") /\ ~Exists(AckFile(trigger_id[i])))
             => /\ files' = files
                /\ pc'[i] = IF AckStatus(data[i]) THEN "resp_loop" ELSE "ack_sleep"
                /\ ack_received'[i] = AckStatus(data[i])
          /\ (Steps(i, "ack_read") /\ ~Exists(AckFile(trigger_id[i])))
             => files' = files /\ pc'[i] = "ack_sleep"
      ]_vars

\* The host took back the one response document it wrote, after the waiter had
\* read it and before the waiter's unlink, and the waiter returned its text.
C20_Witness ==
    \E i \in Inv :
        /\ pc[i] = "done"
        /\ host_answered[i] = 1
        /\ ResponsePatterns(trigger_id[i])[1] \in host_retracted
        /\ Carries(result[i], tool[i], <<"n">>)

\* The phase of a review_gate_chat invocation: 0 not called, 1 emitting
\* (Emitted once it ends), 2 AckPending, 3 ResponsePending, 4 returned.
Phase(at) ==
    CASE at = "idle" -> 0
      [] at \in AckPcs -> 2
      [] at \in RespPcs -> 3
      [] at \in {"done", "cancelled"} -> 4
      [] OTHER -> 1

\* The four candidate response names of invocation i.
Candidates(i) == {ResponsePatterns(trigger_id[i])[p] : p \in 1 .. 4}

\* Invocation i takes a step.
Moves(i) == pc'[i] # pc[i] \/ k'[i] # k[i]

\* C21: the phases of a review_gate_chat invocation follow each other in the
\* order emission, acknowledgement wait, response wait, return.  The
\* acknowledgement wait begins only when the emission succeeded, the response
\* wait begins only at the step that ends the acknowledgement wait (its
\* timeout, or the deletion of a flag-true acknowledgement), and no step the
\* invocation takes before its response wait changes a document under one of
\* its four response names: a response written during the acknowledgement
\* wait is left for the response wait.
C21_PhasesInOrder ==
    [][\A i \in Inv :
          tool'[i] = "review_gate_chat"
          => /\ Phase(pc'[i]) >= Phase(pc[i])
             /\ (Phase(pc'[i]) = 2 /\ Phase(pc[i]) # 2)
                => pc[i] = "emit_settle" /\ emit'[i] = "ok"
             /\ (Phase(pc'[i]) = 3 /\ Phase(pc[i]) # 3)
                => /\ pc[i] \in {"ack_loop", "ack_unlink"}
                   /\ pc[i] = "ack_loop" => ~ack_received'[i]
                   /\ pc[i] = "ack_unlink" => ack_received'[i]
             /\ (pc'[i] = "done" /\ pc[i] # "done") => Phase(pc[i]) \in {1, 3}
             /\ (Phase(pc[i]) \in {1, 2} /\ Moves(i))
                => \A n \in Candidates(i) : Read(n)' = Read(n)
         ]_vars

\* The acknowledgement waiter has read a flag-true acknowledgement, and is
\* about to end its wait, while a response document for the same request is
\* in the store.
C21_Witness ==
    \E i \in Inv :
        /\ tool[i] = "review_gate_chat"
        /\ pc[i] = "ack_unlink"
        /\ AckStatus(data[i])
        /\ host_answered[i] = 1
        /\ Exists(ResponsePatterns(trigger_id[i])[1])

\* The values of a sequence.
Range(seq) == {seq[x] : x \in 1 .. Len(seq)}

\* The acknowledgement document carries the flag, and the flag is true.
FlagTrue(d) == "acknowledged" \in d.has /\ d.acknowledged

\* C22: _wait_for_extension_acknowledgement returns True exactly when one of
\* its polls, made before the timeout elapsed, read an acknowledgement document
\* of its id whose flag is true.  A document whose flag is false (or missing)
\* is deleted and the waiter sleeps and polls again, so a later flag-true
\* document still gives True; the waiter returns False only at the loop test
\* that finds the timeout elapsed, never having read a true flag.
C22_TrueIffFlagTrueSeen ==
    [][\A i \in Inv :
          /\ Steps(i, "ack_unlink")
             => /\ ~TimedOut(start_time[i], AckTimeout)
                /\ AckFile(trigger_id[i]) \notin DOMAIN files'
                /\ IF FlagTrue(data[i])
                   THEN pc'[i] = "resp_loop" /\ ack_received'[i]
                   ELSE pc'[i] = "ack_sleep" /\ ~ack_received'[i]
          /\ (pc[i] \in AckPcs /\ pc'[i] = "resp_loop")
             => /\ ack_received'[i] <=> "true" \in Range(ack_seen'[i])
                /\ ~ack_received'[i]
                   => pc[i] = "ack_loop" /\ TimedOut(start_time[i], AckTimeout)
                /\ ack_received'[i] => ack_seen'[i][Len(ack_seen'[i])] = "true"
         ]_vars

\* The waiter read a flag-false acknowledgement, deleted it and polled on,
\* then read a flag-true one and returned True.
C22_Witness ==
    \E i \in Inv :
        /\ pc[i] \in RespPcs
        /\ ack_received[i]
        /\ ack_seen[i] = <<"false", "true">>
        /\ ~Exists(AckFile(trigger_id[i]))

\* C23: no read or parse error ends a polling loop.  An acknowledgement poll
\* whose read fails (the body does not parse, or the file is gone) touches
\* nothing, returns nothing and sleeps before the next poll; the waiter that
\* had such a poll still ends only with True after reading a true flag or with
\* False at its timeout.  The speech thread leaves its loop only at a loop
\* test that finds shutdown_requested set; a trigger file that does not parse
\* is unlinked in the except branch and the for loop goes on with the next
\* file, as it does after a request whose processing failed.
C23_ErrorsKeepLoopsPolling ==
    [][/\ \A i \in Inv :
             /\ (Steps(i, "ack_read") /\ ~Parseable(Read(AckFile(trigger_id[i]))))
                => /\ pc'[i] = "ack_sleep"
                   /\ files' = files
                   /\ result'[i] = NoResult
             /\ (pc[i] \in AckPcs /\ pc'[i] \notin AckPcs \cup {"cancelled"}
                   /\ "error" \in Range(ack_seen[i]))
                => /\ pc'[i] = "resp_loop"
                   /\ IF ack_received'[i]
                      THEN pc[i] = "ack_unlink" /\ FlagTrue(data[i])
                      ELSE pc[i] = "ack_loop" /\ TimedOut(start_time[i], AckTimeout)
       /\ (sp' = "exited" /\ sp # "exited") => sp = "loop" /\ shutdown_requested
       /\ (sp = "open" /\ sp' # sp /\ ~Parseable(Read(SpeechTrigger(Head(sq)))))
          => sp' = "unlink" /\ sq' = sq /\ files' = files
       /\ (sp = "unlink" /\ sp' # sp)
          => /\ sp' = (IF Len(sq) > 1 THEN "open" ELSE "loop")
             /\ sq' = Tail(sq)
             /\ SpeechTrigger(Head(sq)) \notin DOMAIN files'
      ]_vars

\* An acknowledgement poll read a body that does not parse and a later poll
\* returned True; the speech thread met a trigger file that does not parse and
\* afterwards transcribed the request of the next file.
C23_Witness ==
    /\ \E i \in Inv :
          /\ pc[i] \in RespPcs
          /\ ack_received[i]
          /\ ack_seen[i] = <<"error", "true">>
    /\ raised = {1}
    /\ Exists(SpeechResponseFile(2))
    /\ files[SpeechResponseFile(2)].success
    /\ sp \in {"loop", "open"}

\* The accepted field names, in their priority order.
FieldNames == <<"user_input", "response", "message">>

\* The value the document gives to a field name.
FieldValue(d, name) ==
    CASE name = "user_input" -> d.user_input
      [] name = "response" -> d.response
      [] OTHER -> d.message

\* The value of the first field name the document has, and the empty text
\* when it has none of them.
FirstPresent(d) ==
    LET present == {x \in 1 .. Len(FieldNames) : FieldNames[x] \in d.has}
    IN IF present = {} THEN <<>>
       ELSE FieldValue(d, FieldNames[CHOOSE x \in present : \A y \in present : x <= y])

\* C24: the text the response waiter extracts from a JSON document it takes
\* is the value (stripped) of the first key present among user_input,
\* response, message, and the empty text when none is present.  The presence
\* of the key decides: an empty user_input beside a non-empty response
\* extracts the empty text.  The waiter's user_input is that text followed by
\* the line that names the image attachments.
C24_FirstPresentFieldExtracted ==
    [][\A i \in Inv :
          (Steps(i, "resp_read") /\ pc'[i] = "resp_unlink" /\ data'[i].fmt = "json")
          => user_input'[i] = Trimmed(FirstPresent(data'[i]))
                                 \o AttachedSuffix(ImageNames(data'[i]))
      ]_vars

\* The waiter took a document whose user_input is empty and whose response is
\* not, and extracted the empty text.
C24_Witness ==
    \E i \in Inv :
        /\ pc[i] = "resp_unlink"
        /\ data[i].fmt = "json"
        /\ data[i].has = {"user_input", "response"}
        /\ data[i].user_input = <<>>
        /\ data[i].response = <<"n">>
        /\ user_input[i] = <<>>

\* A document the waiter for tid returns: it is meant for it and the text the
\* waiter makes of it is not empty.
Acceptable(d, tid) == d # Absent /\ MeantFor(d, tid) /\ ReturnedFor(d) # <<>>

\* Invocation i takes a step from the position at, other than being cancelled.
Acts(i, at) == pc[i] = at /\ Moves(i) /\ pc'[i] # "cancelled"

\* The for loop of the poll goes on with the candidate after the one at hand,
\* and the poll ends in its sleep after the fourth.
Advances(i) ==
    IF k[i] < 4 THEN pc'[i] = "resp_exists" /\ k'[i] = k[i] + 1
    ELSE pc'[i] = "resp_sleep"

\* C25 as stated, for the documents of one poll: the only candidate document
\* the waiter deletes is the one whose text it returns; every other candidate
\* is left untouched.
C25_OnlyReturnedIsDeleted ==
    [][\A i \in Inv :
          (Acts(i, "resp_unlink") /\ Exists(Pattern(i))) => pc'[i] = "done"
      ]_vars

\* C25: a poll made before the timeout examines the candidates in the order
\* review_gate_response_<id>, review_gate_response, mcp_response_<id>,
\* mcp_response.  A candidate that is absent, declares another id or does not
\* parse is left as it is and the next candidate is examined in the same poll;
\* the first acceptable candidate is read, deleted and returned, with no other
\* name touched.  A candidate the waiter takes but whose text is empty is
\* deleted too, and the poll goes on with the next candidate.
C25_CandidatesInOrder ==
    [][\A i \in Inv :
          /\ (Acts(i, "resp_loop") /\ pc'[i] # "done")
             => pc'[i] = "resp_exists" /\ k'[i] = 1
          /\ Acts(i, "resp_exists")
             => /\ files' = files
                /\ IF Exists(Pattern(i))
                   THEN pc'[i] = "resp_read" /\ k'[i] = k[i]
                   ELSE Advances(i)
          /\ Acts(i, "resp_read")
             => /\ files' = files
                /\ IF Acceptable(Read(Pattern(i)), trigger_id[i])
                   THEN /\ pc'[i] = "resp_unlink" /\ k'[i] = k[i]
                        /\ user_input'[i] = ReturnedFor(Read(Pattern(i)))
                   ELSE IF Read(Pattern(i)) # Absent
                           /\ MeantFor(Read(Pattern(i)), trigger_id[i])
                   THEN pc'[i] = "resp_unlink" /\ k'[i] = k[i] /\ user_input'[i] = <<>>
                   ELSE Advances(i)
          /\ Acts(i, "resp_unlink")
             => /\ DOMAIN files' = DOMAIN files \ {Pattern(i)}
                /\ \A n \in DOMAIN files' : files'[n] = files[n]
                /\ IF user_input[i] # <<>>
                   THEN pc'[i] = "done" /\ Carries(result'[i], tool[i], user_input[i])
                   ELSE Advances(i)
      ]_vars

\* The waiter returned the text of the document under its second candidate
\* name while the document under its first, which declares another id, is
\* still in the store.
C25_Witness ==
    \E i \in Inv :
        /\ pc[i] = "done"
        /\ Carries(result[i], tool[i], <<"y">>)
        /\ host_answered[i] = 2
        /\ Exists(ResponsePatterns(trigger_id[i])[1])
        /\ files[ResponsePatterns(trigger_id[i])[1]].fmt = "json"
        /\ files[ResponsePatterns(trigger_id[i])[1]].trigger_id = StaleId
        /\ ~Exists(ResponsePatterns(trigger_id[i])[2])

\* The step changes the store by deleting names of the set given, at most.
DeletesWithin(names) ==
    /\ DOMAIN files' \subseteq DOMAIN files
    /\ DOMAIN files \ DOMAIN files' \subseteq names
    /\ \A n \in DOMAIN files' : files'[n] = files[n]

\* C26: every step of the acknowledgement waiter for an id writes nothing and
\* deletes at most review_gate_ack_<id>; every step of the response waiter
\* writes nothing and deletes at most one of its four candidate names.  So
\* neither touches a trigger document.  Neither changes shutdown_requested:
\* the flag changes only where _handle_shutdown_mcp assigns it (line 733)
\* after its response waiter has returned a confirmation.
C26_WaitersFrame ==
    [][\A i \in Inv :
          /\ (pc[i] \in AckPcs /\ Moves(i))
             => /\ DeletesWithin({AckFile(trigger_id[i])})
                /\ shutdown_requested' = shutdown_requested
          /\ (pc[i] \in RespPcs /\ Moves(i))
             => /\ DeletesWithin(Candidates(i))
                /\ shutdown_requested' # shutdown_requested
                   => /\ tool[i] = "shutdown_mcp"
                      /\ pc'[i] = "done"
                      /\ Confirms(user_input[i])
      ]_vars

\* Both waiters of a chat have deleted their documents and returned, and the
\* three backup trigger documents of the request are as the emitter wrote them.
C26_Witness ==
    \E i \in Inv :
        /\ pc[i] = "done"
        /\ ack_received[i]
        /\ ack_seen[i] # <<>>
        /\ Carries(result[i], "review_gate_chat", <<"n">>)
        /\ ~Exists(AckFile(trigger_id[i]))
        /\ \A p \in 1 .. 4 : ~Exists(ResponsePatterns(trigger_id[i])[p])
        /\ \A b \in 0 .. NumBackups - 1 :
              /\ Exists(BackupFile(b))
              /\ files[BackupFile(b)] = BackupDoc(i, tool[i], trigger_id[i], b)
        /\ ~shutdown_requested

\* The host has taken no document out of the store.
NoHostInterference == host_read = {} /\ host_retracted = {}

\* The four trigger documents are there and carry the request of invocation i.
FourTriggersOf(F, i) ==
    /\ {n \in DOMAIN F : n[1] = "review_gate_trigger"} = TriggerNames
    /\ F[TriggerFile] = TriggerDoc(i, tool[i], trigger_id[i])
    /\ \A b \in 0 .. NumBackups - 1 :
          F[BackupFile(b)] = BackupDoc(i, tool[i], trigger_id[i], b)

\* C27: when _trigger_cursor_popup_immediately returns True to invocation i,
\* with every write of the emission done and nothing taken by the host, the
\* store holds exactly four trigger documents (the primary and the backups 0,
\* 1, 2) and each carries the data of request i with its trigger id.
C27_FourTriggersAfterEmit ==
    [][\A i \in Inv :
          (/\ pc[i] = "emit_settle" /\ pc'[i] \in {"ack_loop", "resp_loop"}
           /\ primary[i] = "ok" /\ ~backup_failed[i]
           /\ NoHostInterference)
          => FourTriggersOf(files', i)
      ]_vars

\* The positions _monitor_shutdown and run() go through, in order.
MonitorOrder == <<"wait", "exists", "unlink", "done", "stopped">>

\* The place of a position in that order.
Place(m) == CHOOSE x \in 1 .. Len(MonitorOrder) : MonitorOrder[x] = m

\* C28: once shutdown_requested is true, _monitor_shutdown leaves its wait
\* loop, goes through the cleanup of the trigger documents and completes, and
\* run() then cancels the tasks still pending; the monitor does all that in
\* this order (the cleanup alternating between exists() and unlink()), and as
\* long as the flag is false it stays in its wait loop and deletes nothing.
C28_FlagLeadsToCleanupAndCancel ==
    /\ shutdown_requested ~> (mon = "stopped")
    /\ [][/\ ~shutdown_requested => mon = "wait" /\ mon' = "wait"
          /\ mon' # mon
             => \/ Place(mon') = Place(mon) + 1
                \/ mon \in {"exists", "unlink"} /\ mon' \in {"exists", "unlink", "done"}
          /\ (mon' = "stopped" /\ mon # "stopped")
             => \A i \in Inv : pc'[i] \in {"done", "cancelled"}
          /\ (mon \in {"wait", "done", "stopped"} /\ mon' # mon) => files' = files
         ]_vars

\* The monitor has cleaned up trigger documents and completed, and run() has
\* cancelled a review_gate_chat that was still waiting.
C28_Witness ==
    /\ mon = "stopped"
    /\ shutdown_requested
    /\ at_cleanup # {}
    /\ \A n \in at_cleanup : ~Exists(n)
    /\ \E i \in Inv : pc[i] = "cancelled" /\ tool[i] = "review_gate_chat"

\* The positions of a handler inside its two waits.
AckPhase == {"ack_loop", "ack_read", "ack_unlink", "ack_sleep"}

RespPhase == {"resp_loop", "resp_exists", "resp_read", "resp_unlink", "resp_sleep"}

\* Invocation i is a review_gate_chat inside one of its waits.
Waits(i) == tool[i] = "review_gate_chat" /\ pc[i] \in AckPhase \cup RespPhase

\* C29 as stated: a review_gate_chat that has emitted is out of its waits when
\* the sum of both timeouts and one poll interval has gone by.
C29_ReturnsWithinTimeoutsAndOnePoll ==
    \A i \in Inv :
        Waits(i) => now - waiting_since[i] <= AckTimeout + RespTimeout + CheckInterval

\* C29: the two waits of a review_gate_chat are timed each from its own start.
\* The acknowledgement wait starts when the emission returns and is over
\* before its timeout and one error backoff have gone by; the response wait
\* starts at the moment the acknowledgement wait returns, gives up no earlier
\* than its own timeout after that and is over before that timeout and one
\* poll interval have gone by; no sleep of a waiter lasts longer than the error
\* backoff. So a review_gate_chat is out of its waits before the sum of both
\* timeouts, one error backoff and one poll interval has gone by since its
\* emission, whatever documents it met.
C29_EachWaitHasItsOwnTimeout ==
    /\ [](\A i \in Inv :
            /\ (tool[i] = "review_gate_chat" /\ pc[i] \in AckPhase)
               => /\ start_time[i] = waiting_since[i]
                  /\ now - start_time[i] < AckTimeout + ErrorBackoff
            /\ (tool[i] = "review_gate_chat" /\ pc[i] \in RespPhase)
               => /\ start_time[i] - waiting_since[i] < AckTimeout + ErrorBackoff
                  /\ now - start_time[i] < RespTimeout + CheckInterval
            /\ Waits(i)
               => /\ now - waiting_since[i]
                        < AckTimeout + ErrorBackoff + RespTimeout + CheckInterval
                  /\ wake[i] - now <= ErrorBackoff)
    /\ [][\A i \in Inv :
            /\ (tool[i] = "review_gate_chat" /\ pc[i] \in AckPhase /\ pc'[i] \in RespPhase)
               => /\ start_time'[i] = now
                  /\ ~ack_received'[i] => now - start_time[i] >= AckTimeout
            /\ (tool[i] = "review_gate_chat" /\ pc[i] \in RespPhase /\ pc'[i] = "done"
                  /\ result'[i] = ChatTimeout)
               => now - start_time[i] >= RespTimeout
         ]_vars

\* A review_gate_chat met an acknowledgement that did not parse, waited for the
\* acknowledgement until that wait timed out, then for the response for the
\* whole of its timeout, and returned later than both timeouts and one poll
\* interval after its emission.
C29_Witness ==
    \E i \in Inv :
        /\ tool[i] = "review_gate_chat"
        /\ pc[i] = "done"
        /\ result[i] = ChatTimeout
        /\ ~ack_received[i]
        /\ "error" \in Range(ack_seen[i])
        /\ now - waiting_since[i] > AckTimeout + RespTimeout + CheckInterval

\* The positions of one poll of _wait_for_user_input, from the loop test to
\* the return or the sleep: no await lies between them.
InPoll == {"resp_loop", "resp_exists", "resp_read", "resp_unlink"}

\* C30: a response waiter keeps the event loop from the loop test of a poll to
\* its return or its sleep, so no other coroutine runs between its exists(),
\* read, unlink and return; and a response document the host wrote once and
\* that was returned to one invocation is neither returned to another nor in
\* the hands of another that has read it and is about to delete it.
C30_ReturnedToAtMostOneWaiter ==
    /\ \A i \in Inv : pc[i] \in InPoll => running = i
    /\ \A i, j \in Inv :
          (i # j /\ got[i] \in Inv /\ host_answered[got[i]] <= 1)
          => /\ got[j] # got[i]
             /\ pc[j] = "resp_unlink" => data[j].for # got[i]

\* Two review_gate_chat waiters ran side by side, the document the host wrote
\* for one of them under a name both poll was returned to the other, and the
\* one it was written for is still waiting.
C30_Witness ==
    \E i, j \in Inv :
        /\ i # j
        /\ tool[i] = "review_gate_chat" /\ tool[j] = "review_gate_chat"
        /\ got[i] = j
        /\ pc[i] = "done"
        /\ pc[j] \in RespPhase
        /\ got[j] = 0

\* The image/* attachments of a response document, in order, as image items.
RECURSIVE ImagesOf(_)
ImagesOf(atts) ==
    IF atts = <<>> THEN <<>>
    ELSE (IF Head(atts).mimeType \in {"image/png", "image/jpeg"}
          THEN <<[data |-> Head(atts).base64Data, mimeType |-> Head(atts).mimeType]>>
          ELSE <<>>) \o ImagesOf(Tail(atts))

\* C31: when a review_gate_chat returns the text of a response document, the
\* image items of its result are the image/* attachments of that very
\* document, in order, whatever the shared slot _last_attachments held from
\* the documents other invocations consumed; a result that carries no
\* response text carries no image.
C31_ImagesOfTheReturnedDocument ==
    /\ [][\A i \in Inv :
            (tool[i] = "review_gate_chat" /\ Steps(i, "resp_unlink") /\ pc'[i] = "done")
            => /\ result'[i].images = ImagesOf(ListedIn(data[i]))
               /\ result'[i].text = <<"User Response: ">> \o user_input[i]
         ]_vars
    /\ [](\A i \in Inv :
            (tool[i] = "review_gate_chat" /\ pc[i] = "done" /\ got[i] = 0)
            => result[i].images = <<>>)

\* Two review_gate_chat invocations both returned a response: one with the two
\* images of its document, the other, whose document had no attachment, with
\* none, although the slot holds the three attachments the first one stored.
C31_Witness ==
    \E i, j \in Inv :
        /\ i # j
        /\ tool[i] = "review_gate_chat" /\ tool[j] = "review_gate_chat"
        /\ pc[i] = "done" /\ pc[j] = "done"
        /\ got[i] \in Inv /\ got[j] \in Inv
        /\ Len(result[i].images) = 2
        /\ result[j].images = <<>>
        /\ last_attachments = ThreeAttachments

\* Every invocation of the run comes through call_tool.
AllDispatched == \A i \in DOMAIN env.tools : env.tools[i] \subseteq Dispatched

EmitFailures == {"raised", "absent", "zero"}

\* C32: an invocation whose emission returned False is in neither wait, then
\* or later: it returns the handler's failure text at once, has read no
\* acknowledgement and returned no response document, and the step in which
\* the emission fails changes neither the store nor _last_attachments; from
\* then on no step changes anything of that invocation.
C32_FailedEmitWaitsForNothing ==
    /\ [](\A i \in Inv :
            emit[i] \in EmitFailures
            => /\ pc[i] \in {"emit_raised", "done", "cancelled"}
               /\ pc[i] = "done" => result[i] = EmitFailureResult(tool[i])
               /\ got[i] = 0
               /\ ack_seen[i] = <<>>
               /\ waiting_since[i] = 0
               /\ ~ack_received[i])
    /\ [][\A i \in Inv :
            /\ (emit'[i] \in EmitFailures /\ pc'[i] = "done" /\ pc[i] # "done")
               => /\ files' = files
                  /\ last_attachments' = last_attachments
            /\ (emit[i] \in EmitFailures /\ pc[i] = "done")
               => /\ pc'[i] = "done"
                  /\ result'[i] = result[i]
                  /\ emit'[i] = emit[i]
         ]_vars

\* The host took the trigger before the emitter looked for it, so the emission
\* returned False and the review_gate_chat returned its error text; the host
\* answered the request all the same, and its response document is still in
\* the store when the time of a whole response wait has gone by.
C32_Witness ==
    \E i \in Inv :
        /\ tool[i] = "review_gate_chat"
        /\ emit[i] = "absent"
        /\ pc[i] = "done"
        /\ result[i] = ChatError
        /\ i \in host_read
        /\ host_answered[i] > 0
        /\ \E n \in DOMAIN files :
              /\ n \in {ResponsePatterns(trigger_id[i])[p] : p \in 1 .. 4}
              /\ files[n].for = i
        /\ now >= RespTimeout + AckTimeout

\* A text that, trimmed and upper-cased, is one of the confirmation words.
IsConfirmation(text) ==
    \E w \in {<<"C", "O", "N", "F", "I", "R", "M">>, <<"Y", "E", "S">>, <<"Y">>,
              <<"S", "H", "U", "T", "D", "O", "W", "N">>,
              <<"P", "R", "O", "C", "E", "E", "D">>} :
        /\ Len(Trimmed(text)) = Len(w)
        /\ \A x \in 1 .. Len(w) : UpperChar(Trimmed(text)[x]) = w[x]

\* C34: shutdown_requested never goes from true to false; it goes from false
\* to true only in the step in which _handle_shutdown_mcp returns with a
\* response text that is a confirmation, and every such return sets it; a
\* return with another text, a timeout of the response wait and a failed
\* emission leave it as it was.
C34_FlagMonotoneAndConfirmationGated ==
    [][/\ shutdown_requested => shutdown_requested'
       /\ (shutdown_requested' /\ ~shutdown_requested)
          => \E i \in Inv :
                /\ tool[i] = "shutdown_mcp"
                /\ Steps(i, "resp_unlink") /\ pc'[i] = "done"
                /\ IsConfirmation(user_input[i])
       /\ \A i \in Inv :
             (tool[i] = "shutdown_mcp" /\ pc[i] # "done" /\ pc'[i] = "done")
             => IF pc[i] = "resp_unlink" /\ IsConfirmation(user_input[i])
                THEN shutdown_requested'
                ELSE shutdown_requested' = shutdown_requested
      ]_vars

\* A shutdown_mcp was answered "y" and set the flag; the monitor has cleaned
\* up, run() has stopped the server, and the flag is still true.
C34_Witness ==
    \E i \in Inv :
        /\ tool[i] = "shutdown_mcp"
        /\ pc[i] = "done"
        /\ result[i] = ShutdownConfirmed(<<"y">>)
        /\ shutdown_requested
        /\ mon = "stopped"

\* The document under speech trigger name x is a speech_to_text request that
\* carries its correlation id and its audio path.
ValidRequest(F, x) ==
    /\ SpeechTrigger(x) \in DOMAIN F
    /\ Parseable(F[SpeechTrigger(x)])
    /\ F[SpeechTrigger(x)].data.tool = "speech_to_text"
    /\ {"audio_file", "trigger_id"} \subseteq F[SpeechTrigger(x)].has

\* The result document of request id is there, with success true exactly when
\* its error is null.
ResultOf(F, id) ==
    /\ SpeechResponseFile(id) \in DOMAIN F
    /\ F[SpeechResponseFile(id)].trigger_id = id
    /\ F[SpeechResponseFile(id)].success <=> F[SpeechResponseFile(id)].error = Null

\* What holds of the requests the speech monitor handles: when it unlinks a
\* request it has processed, a request with both fields has its result
\* document, written in an earlier step and once, and a request without one
\* of them has none; no step of the thread both writes a result and deletes a
\* request.
HandledRequestsAnswered ==
    [][/\ (sp = "unlink" /\ sp' # "unlink" /\ sdata # Absent)
          => IF {"audio_file", "trigger_id"} \subseteq sdata.has
             THEN /\ ResultOf(files, sdata.data.trigger_id)
                  /\ ResultOf(files', sdata.data.trigger_id)
             ELSE SpeechResponseFile(sdata.data.trigger_id) \notin DOMAIN files'
       /\ (sp \in {"process", "transcribe"} /\ sp' # sp)
          => /\ SpeechResponseFile(sdata.data.trigger_id) \notin DOMAIN files
             /\ DOMAIN files \subseteq DOMAIN files'
      ]_vars

\* C35 as stated: every speech_to_text request document with a correlation id
\* and an audio path gets its result document, with success true exactly when
\* the error is null; so once the speech monitor has left its loop, no such
\* request is in the store without its result.
C35_EveryRequestHasItsResult ==
    sp = "exited"
    => \A x \in SpeechSlots : ValidRequest(files, x) => ResultOf(files, x)

\* The server map a configuration file holds, as the claim reads it: the items
\* of its mcpServers object, none when the file has no such object.
ServersOf(doc) ==
    IF doc # Absent /\ doc.fmt = "json" /\ doc.kind = "object"
       /\ "mcpServers" \in doc.has /\ doc.mcpServers.type = "object"
    THEN doc.mcpServers.items
    ELSE <<>>

\* The entries the server map has under a name.
EntriesOf(items, name) == {items[j][2] : j \in {x \in 1 .. Len(items) : items[x][1] = name}}

\* How many items of the server map have this name.
Count(items, name) == Cardinality({j \in 1 .. Len(items) : items[j][1] = name})

\* C36: one run of configure_mcp leaves in mcp_file a JSON object whose
\* mcpServers map has every server the file had before, other than
\* review-gate-v2, with its entry unchanged, no other server but
\* review-gate-v2, and exactly one review-gate-v2 entry, the one built from the
\* directory given; a file that was missing, unreadable, no JSON, or no object
\* with a server map is left with review-gate-v2 alone; and a second run with
\* the same arguments writes the same file again.
C36_ConfigureMcpPreservesAndIsIdempotent ==
    [][LET before == Read(McpFile)
           after == files'[McpFile]
           old == ServersOf(before)
           new == ServersOf(files'[McpFile])
           dir == env.review_gate_dir
       IN  /\ McpFile \in DOMAIN files'
           /\ after.fmt = "json" /\ after.kind = "object"
           /\ after.has = {"mcpServers"} /\ after.mcpServers.type = "object"
           /\ \A n \in ServerNames \ {"review-gate-v2"} :
                  /\ EntriesOf(new, n) = EntriesOf(old, n)
                  /\ Count(new, n) = Count(old, n)
           /\ \A j \in 1 .. Len(new) : new[j][1] \in ServerNames
           /\ Count(new, "review-gate-v2") = 1
           /\ EntriesOf(new, "review-gate-v2") = {Entry(dir)}
           /\ (before = Absent \/ before.fmt # "json" \/ before.kind # "object")
                  => new = << <<"review-gate-v2", Entry(dir)>> >>
           /\ Configured(after, dir) = after
      ]_vars

\* A run has rewritten a file that had a stale review-gate-v2 entry first, two
\* other servers after it and another top-level key: the two servers are
\* there as they were, review-gate-v2 is last with the entry of the directory.
C36_Witness ==
    /\ env.name = "configure_mcp"
    /\ env.review_gate_dir = "C:/review-gate"
    /\ env.mcp_file =
           McpConfig({"inputs", "mcpServers"},
                     JsonObject(<< <<"review-gate-v2", Entry("D:/tools/rg")>>,
                                   <<"github", OtherEntry("npx")>>,
                                   <<"memory", OtherEntry("uvx")>> >>))
    /\ McpFile \in DOMAIN files
    /\ files[McpFile] # env.mcp_file
    /\ files[McpFile].mcpServers.items =
           << <<"github", OtherEntry("npx")>>,
              <<"memory", OtherEntry("uvx")>>,
              <<"review-gate-v2", Entry("C:/review-gate")>> >>

====
